---------------------------- MODULE Spec2Model ----------------------------
(***************************************************************************)
(* A model of the protocol servers of cogpilot/cognitive-architecture:     *)
(*   - MCPServer  (src/protocols/mcp/server.py), a websocket server that   *)
(*     dispatches JSON messages on their `type` field;                     *)
(*   - LSPServer  (src/protocols/lsp/server.py), a stdio JSON-RPC server   *)
(*     with Content-Length framing.                                        *)
(* Timestamps (datetime.now()) and log lines are left out: no code reads   *)
(* them back.  A response is modelled by its `type` and its payload.       *)
(***************************************************************************)
EXTENDS Integers, Sequences, FiniteSets, TLC

VARIABLES
    clients,          \* MCPServer.clients: the client ids registered
    study_sessions,   \* MCPServer.study_sessions: session_<i-1> is entry i
    handler,          \* per websocket: is its handle_client coroutine running
    conn,             \* per websocket: the state of the network connection
    sent,             \* per websocket: the frames the last step sent over it
    transport_ids,    \* history: the transport_ids of the responses sent so far
    documents,        \* LSPServer.documents: URI -> content
    workspace_folders,\* LSPServer.workspace_folders
    stdout,           \* the frames the last step wrote to sys.stdout
    stdin,            \* sys.stdin: its characters (buf) and the read position (pos)
    written,          \* history: the frames the client wrote to stdin
    header,           \* the header dict of _read_header
    pc,               \* where the LSP server is in start_server
    initialize_received, \* history: an initialize message has been handled
    hist,             \* history: the document notifications handled, in order
    component_registry, \* ReproducibleAIBuilder.component_registry
    cognitive_cities, \* OperationalizedRAGFabric.cognitive_cities
    transport_channels, \* NeuralTransportNetwork.transport_channels
    channels,         \* InterOrgNeuralTransport.channels
    context_cache,    \* InterOrgNeuralTransport.context_cache
    build_history,    \* BlueprintGenerator.build_history
    cities,           \* CognitiveEcosystemOrchestrator.cities
    neural_channels,  \* CognitiveEcosystemOrchestrator.transport_channels
    meta_protocols,   \* IntrospectiveProtocolDesigner.meta_protocols
    protocol_ecosystem, \* IntrospectiveProtocolDesigner.protocol_ecosystem
    last              \* the operation executed last, with its arguments

vars == <<clients, study_sessions, handler, conn, sent, transport_ids,
          documents, workspace_folders, stdout, stdin, written, header, pc,
          initialize_received, hist, component_registry, cognitive_cities,
          transport_channels, channels, context_cache, build_history, cities,
          neural_channels, meta_protocols, protocol_ecosystem, last>>

lspVars == <<documents, workspace_folders, stdout, stdin, written, header, pc,
             initialize_received, hist>>

mcpVars == <<clients, study_sessions, handler, conn, sent, transport_ids>>

builderVars == <<component_registry>>

fabricVars == <<cognitive_cities, transport_channels>>

transportVars == <<channels, context_cache>>

generatorVars == <<build_history>>

orchestratorVars == <<cities, neural_channels>>

designerVars == <<meta_protocols, protocol_ecosystem>>

ecoVars == <<builderVars, fabricVars, transportVars, generatorVars,
             orchestratorVars, designerVars>>

----------------------------------------------------------------------------
(* Bounds of the model *)

MaxClients == 2       \* websockets that may connect
MaxSessions == 1      \* study sessions created in one behaviour
MaxLine == 2          \* line numbers of the positions asked about
MaxChar == 14         \* character numbers of the positions asked about
MaxNotes == 3         \* document notifications in one behaviour of LSPDocSpec
MaxDocLines == 2      \* lines of the documents whose symbols are extracted
MaxFrames == 2        \* frames a client writes to stdin in LSPStdioSpec

----------------------------------------------------------------------------
(* Python helpers *)

\* dict.get(key, default)
Get(d, k, default) == IF k \in DOMAIN d THEN d[k] ELSE default

----------------------------------------------------------------------------
(* MCPServer: inputs *)

Sockets == 1..MaxClients

\* client_id = f"client_{id(websocket)}": id() is distinct for distinct live
\* objects, so the client id is modelled by the websocket itself.
ClientId(w) == w

StudyRequests ==
    {[type |-> "study_request", study_type |-> st, topic |-> "hello_world"] :
        st \in {"ml_concepts", "nn_architectures", "cognitive_architecture", "quantum"}}
    \cup {[type |-> "study_request"]}

CognitiveQueries ==
    {[type |-> "cognitive_architecture_query", query_type |-> q] :
        q \in {"activation_landscape", "memory_patterns", "neural_transport_status"}}
    \cup {[type |-> "cognitive_architecture_query"]}

TransportRequests ==
    {[type |-> "neural_transport", source |-> "cogpilot", target |-> "cogcities"]}

IntrospectionRequests ==
    {[type |-> "protocol_introspection", introspection_type |-> it] :
        it \in {"status", "capabilities", "performance", "history"}}

OtherObjects ==
    {[type |-> "ping"], [topic |-> "hello_world"]}

\* What json.loads makes of a text frame: a JSONDecodeError, a value that is
\* not an object (a list, a number, ...), or an object (a dict).
MCPMessages ==
    {[json |-> "invalid"], [json |-> "nonobject"]}
    \cup {[json |-> "object", data |-> d] :
            d \in StudyRequests \cup CognitiveQueries \cup TransportRequests
                  \cup IntrospectionRequests \cup OtherObjects}

----------------------------------------------------------------------------
(* MCPServer: content generators *)

generate_ml_study_content(topic) ==
    CASE topic = "hello_world" ->
            [concept |-> "Introduction to Machine Learning"]
      [] topic = "neural_networks" ->
            [concept |-> "Neural Network Architectures"]
      [] OTHER ->
            [concept |-> "Study topic", topic |-> topic,
             note |-> "Content generation for this topic is in development"]

generate_nn_study_content(topic) ==
    [architecture_type |-> topic,
     implementation_notes |-> "PyTorch-based implementation examples"]

generate_cognitive_architecture_content(topic) ==
    [cognitive_pattern |-> topic,
     implementation |-> "GitHub Enterprise cognitive ecology"]

analyze_activation_landscape == [trending_patterns |-> <<"cognitive_cities", "enterprise_ai">>]

analyze_memory_patterns == [active_patterns |-> 15, memory_utilization |-> "moderate"]

check_neural_transport_status == [active_channels |-> 3, total_bandwidth |-> "high"]

get_protocol_status(cl, ss) ==
    [server_status |-> "running",
     connected_clients |-> Cardinality(cl),
     active_sessions |-> Len(ss),
     protocol_version |-> "cognitive_architecture_v1.0"]

\* Capabilities that advertise a study type no branch implements.
get_protocol_capabilities_stale ==
    [supported_message_types |->
        <<"study_request", "cognitive_architecture_query",
          "neural_transport", "protocol_introspection">>,
     study_types |-> <<"ml_concepts", "nn_architectures", "cognitive_architecture",
                       "quantum">>,
     query_types |-> <<"activation_landscape", "memory_patterns", "neural_transport_status">>,
     transport_features |-> <<"high_bandwidth", "semantic_routing", "context_preservation">>]

get_protocol_capabilities ==
    [supported_message_types |->
        <<"study_request", "cognitive_architecture_query",
          "neural_transport", "protocol_introspection">>,
     study_types |-> <<"ml_concepts", "nn_architectures", "cognitive_architecture">>,
     query_types |-> <<"activation_landscape", "memory_patterns", "neural_transport_status">>,
     transport_features |-> <<"high_bandwidth", "semantic_routing", "context_preservation">>]

get_protocol_performance == [average_response_time_ms |-> 25, message_throughput |-> "high"]

----------------------------------------------------------------------------
(* MCPServer: handlers.  Each returns [response, sessions]: the response     *)
(* dictionary and study_sessions as the handler leaves it.                   *)

handle_study_request(client_id, data, ss) ==
    LET study_type == Get(data, "study_type", "unknown")
        topic == Get(data, "topic", "general")
        session_id == Len(ss)           \* f"session_{len(self.study_sessions)}"
        session == [client_id |-> client_id, study_type |-> study_type,
                    topic |-> topic, status |-> "active"]
        content ==
            CASE study_type = "ml_concepts" -> generate_ml_study_content(topic)
              [] study_type = "nn_architectures" -> generate_nn_study_content(topic)
              [] study_type = "cognitive_architecture" ->
                    generate_cognitive_architecture_content(topic)
              [] OTHER -> [message |-> "not yet implemented", study_type |-> study_type]
    IN [response |-> [type |-> "study_response", session_id |-> session_id,
                      study_type |-> study_type, topic |-> topic, content |-> content],
        sessions |-> Append(ss, session)]

handle_cognitive_query(client_id, data, ss) ==
    LET query_type == Get(data, "query_type", "general")
        result ==
            CASE query_type = "activation_landscape" -> analyze_activation_landscape
              [] query_type = "memory_patterns" -> analyze_memory_patterns
              [] query_type = "neural_transport_status" -> check_neural_transport_status
              [] OTHER -> [error |-> "Unknown query type", query_type |-> query_type]
    IN [response |-> [type |-> "cognitive_query_response", query_type |-> query_type,
                      result |-> result],
        sessions |-> ss]

handle_neural_transport(client_id, data, ss) ==
    LET source == Get(data, "source", "unknown")
        target == Get(data, "target", "unknown")
        transport_result ==
            [transport_id |-> Len(ss),  \* f"transport_{len(self.study_sessions)}"
             source |-> source, target |-> target, status |-> "transmitted"]
    IN [response |-> [type |-> "neural_transport_response", result |-> transport_result],
        sessions |-> ss]

handle_protocol_introspection(client_id, data, cl, ss) ==
    LET introspection_type == Get(data, "introspection_type", "status")
        result ==
            CASE introspection_type = "status" -> get_protocol_status(cl, ss)
              [] introspection_type = "capabilities" -> get_protocol_capabilities
              [] introspection_type = "performance" -> get_protocol_performance
              [] OTHER -> [error |-> "Unknown introspection type",
                           introspection_type |-> introspection_type]
    IN [response |-> [type |-> "protocol_introspection_response",
                      introspection_type |-> introspection_type, result |-> result],
        sessions |-> ss]

error_response(error_message) == [type |-> "error", error |-> error_message]

\* Dispatch without the neural_transport branch.
DispatchNoTransport(client_id, message, cl, ss) ==
    IF message.json = "invalid"
    THEN [response |-> error_response("Invalid JSON format"), sessions |-> ss]
    ELSE IF message.json = "nonobject"
    THEN [response |-> error_response("AttributeError"), sessions |-> ss]
    ELSE
        LET data == message.data
            message_type == Get(data, "type", "unknown")
        IN CASE message_type = "study_request" ->
                    handle_study_request(client_id, data, ss)
             [] message_type = "cognitive_architecture_query" ->
                    handle_cognitive_query(client_id, data, ss)
             [] message_type = "protocol_introspection" ->
                    handle_protocol_introspection(client_id, data, cl, ss)
             [] OTHER ->
                    [response |-> [type |-> "error", error |-> "Unknown message type",
                                   message_type |-> message_type],
                     sessions |-> ss]

\* The body of process_message up to the send: the response it computes and
\* study_sessions as it leaves it.
Dispatch(client_id, message, cl, ss) ==
    IF message.json = "invalid"
    THEN \* json.loads raises JSONDecodeError
         [response |-> error_response("Invalid JSON format"), sessions |-> ss]
    ELSE IF message.json = "nonobject"
    THEN \* data.get raises AttributeError, caught by `except Exception`
         [response |-> error_response("AttributeError"), sessions |-> ss]
    ELSE
        LET data == message.data
            message_type == Get(data, "type", "unknown")
        IN CASE message_type = "study_request" ->
                    handle_study_request(client_id, data, ss)
             [] message_type = "cognitive_architecture_query" ->
                    handle_cognitive_query(client_id, data, ss)
             [] message_type = "neural_transport" ->
                    handle_neural_transport(client_id, data, ss)
             [] message_type = "protocol_introspection" ->
                    handle_protocol_introspection(client_id, data, cl, ss)
             [] OTHER ->
                    [response |-> [type |-> "error", error |-> "Unknown message type",
                                   message_type |-> message_type],
                     sessions |-> ss]

\* send_response that writes to every registered client.
send_response_broadcast(client_id, response, cl, out, closed) ==
    IF client_id \in cl /\ ~closed
    THEN [c \in DOMAIN out |-> IF c \in cl THEN Append(out[c], response) ELSE out[c]]
    ELSE out

\* send_response: the outboxes after sending `response` to `client_id`.
\* `closed` says that the peer has closed the connection meanwhile, so that
\* websocket.send raises ConnectionClosed, which send_response swallows.
send_response(client_id, response, cl, out, closed) ==
    IF client_id \in cl /\ ~closed
    THEN [out EXCEPT ![client_id] = Append(@, response)]
    ELSE out

----------------------------------------------------------------------------
(* MCPServer: actions *)

\* No frame is sent by a step that does not call websocket.send.
NoFrames == [w \in Sockets |-> <<>>]

\* The transport_ids of the neural_transport responses among the frames.
TransportIds(out) ==
    UNION {{out[w][i].result.transport_id :
                i \in {j \in DOMAIN out[w] :
                          out[w][j].type = "neural_transport_response"}} :
           w \in DOMAIN out}

\* handle_client starts for a new connection and registers the client.
Connect(w) ==
    /\ handler[w] = "none"
    /\ handler' = [handler EXCEPT ![w] = "running"]
    /\ conn' = [conn EXCEPT ![w] = "open"]
    /\ clients' = clients \cup {ClientId(w)}
    /\ sent' = NoFrames
    /\ last' = [op |-> "handle_client", client |-> w]
    /\ UNCHANGED <<lspVars, ecoVars>>
    /\ UNCHANGED <<study_sessions, transport_ids>>

\* One iteration of `async for message in websocket`: process_message.  A
\* frame that arrived before the peer closed is still handed to the loop;
\* the send then raises ConnectionClosed.
ProcessMessage(w, message) ==
    /\ handler[w] = "running"
    /\ LET d == Dispatch(ClientId(w), message, clients, study_sessions)
       IN /\ Len(d.sessions) <= MaxSessions
          /\ study_sessions' = d.sessions
          /\ sent' = send_response(ClientId(w), d.response, clients, NoFrames,
                                   conn[w] = "closed")
    /\ transport_ids' = transport_ids \cup TransportIds(sent')
    /\ last' = [op |-> "process_message", client |-> w, message |-> message]
    /\ UNCHANGED <<lspVars, ecoVars>>
    /\ UNCHANGED <<clients, handler, conn>>

\* The peer closes the connection while the handler waits for a message.
PeerClose(w) ==
    /\ handler[w] = "running"
    /\ conn[w] = "open"
    /\ conn' = [conn EXCEPT ![w] = "closed"]
    /\ sent' = NoFrames
    /\ last' = [op |-> "handle_client", client |-> w]
    /\ UNCHANGED <<lspVars, ecoVars>>
    /\ UNCHANGED <<clients, study_sessions, handler, transport_ids>>

\* The `finally` clause of handle_client.
Finally(w, cl) == IF ClientId(w) \in cl THEN cl \ {ClientId(w)} ELSE cl

\* The message loop ends: normally (close code 1000/1001) or with
\* ConnectionClosed, which handle_client catches; then `finally`.
HandlerEnd(w, how) ==
    /\ handler[w] = "running"
    /\ conn[w] = "closed"
    /\ clients' = Finally(w, clients)
    /\ handler' = [handler EXCEPT ![w] = "none"]
    /\ sent' = NoFrames
    /\ last' = [op |-> "handle_client", client |-> w]
    /\ UNCHANGED <<lspVars, ecoVars>>
    /\ UNCHANGED <<study_sessions, conn, transport_ids>>

\* handle_client without the `finally` clause: a handler that ends with an
\* exception other than ConnectionClosed leaves its client registered.
HandlerRaiseNoFinally(w) ==
    /\ handler[w] = "running"
    /\ handler' = [handler EXCEPT ![w] = "none"]
    /\ conn' = [conn EXCEPT ![w] = "closed"]
    /\ sent' = NoFrames
    /\ last' = [op |-> "handle_client", client |-> w]
    /\ UNCHANGED <<lspVars, ecoVars>>
    /\ UNCHANGED <<clients, study_sessions, transport_ids>>

\* Another exception ends the handler (the task is cancelled at shutdown,
\* CancelledError): no `except` clause matches, `finally` still runs.
HandlerRaise(w) ==
    /\ handler[w] = "running"
    /\ clients' = Finally(w, clients)
    /\ handler' = [handler EXCEPT ![w] = "none"]
    /\ conn' = [conn EXCEPT ![w] = "closed"]
    /\ sent' = NoFrames
    /\ last' = [op |-> "handle_client", client |-> w]
    /\ UNCHANGED <<lspVars, ecoVars>>
    /\ UNCHANGED <<study_sessions, transport_ids>>

MCPFields ==
    /\ clients = {}
    /\ study_sessions = <<>>
    /\ handler = [w \in Sockets |-> "none"]
    /\ conn = [w \in Sockets |-> "closed"]
    /\ sent = NoFrames
    /\ transport_ids = {}

\* The builder, the fabric and the transport right after construction.
EcoFields ==
    /\ component_registry = [k \in {} |-> k]
    /\ cognitive_cities = [k \in {} |-> k]
    /\ transport_channels = [k \in {} |-> k]
    /\ channels = [k \in {} |-> k]
    /\ context_cache = [k \in {} |-> k]
    /\ build_history = <<>>
    /\ cities = [k \in {} |-> k]
    /\ neural_channels = [k \in {} |-> k]
    /\ meta_protocols = [k \in {} |-> k]
    /\ protocol_ecosystem = [k \in {} |-> k]

----------------------------------------------------------------------------
(* LSPServer: text.  A str is a sequence of one-character strings.          *)

Letters ==
    {"a", "b", "c", "d", "e", "f", "g", "h", "i", "j", "k", "l", "m",
     "n", "o", "p", "q", "r", "s", "t", "u", "v", "w", "x", "y", "z",
     "A", "B", "C", "D", "E", "F", "G", "H", "I", "J", "K", "L", "M",
     "N", "O", "P", "Q", "R", "S", "T", "U", "V", "W", "X", "Y", "Z"}

Digits == {"0", "1", "2", "3", "4", "5", "6", "7", "8", "9"}

\* c.isalnum()
IsAlnum(c) == c \in Letters \cup Digits

\* c.isalnum() or c == '_'
IsWordChar(c) == IsAlnum(c) \/ c = "_"

\* c.isspace()
IsSpace(c) == c \in {" ", "\t", "\r", "\n"}

\* s[i] with Python's index from 0
At(s, i) == s[i + 1]

\* s[i:j] for 0 <= i, 0 <= j
Slice(s, i, j) == SubSeq(s, i + 1, IF j > Len(s) THEN Len(s) ELSE j)

\* s.find(c) for a single character: the least index from 0, or -1
FindChar(s, c) ==
    IF \E i \in 1..Len(s) : s[i] = c
    THEN (CHOOSE i \in 1..Len(s) : s[i] = c /\ \A j \in 1..(i - 1) : s[j] # c) - 1
    ELSE -1

\* s.split(c) for a single character c
RECURSIVE SplitOn(_, _)
SplitOn(s, c) ==
    LET i == FindChar(s, c) IN
    IF i = -1 THEN <<s>>
    ELSE <<Slice(s, 0, i)>> \o SplitOn(Slice(s, i + 1, Len(s)), c)

\* s.startswith(p)
StartsWith(s, p) == Len(s) >= Len(p) /\ SubSeq(s, 1, Len(p)) = p

\* s.find(p): the least index from 0 at which p occurs, or -1
Find(s, p) ==
    LET hits == {i \in 0..(Len(s) - Len(p)) : Slice(s, i, i + Len(p)) = p} IN
    IF hits = {} THEN -1 ELSE CHOOSE i \in hits : \A j \in hits : i <= j

\* s.lstrip(): s from its first character that is not whitespace
LStrip(s) ==
    LET keep == {i \in 1..Len(s) : ~IsSpace(s[i])} IN
    IF keep = {} THEN <<>>
    ELSE SubSeq(s, CHOOSE i \in keep : \A j \in keep : i <= j, Len(s))

\* s.rstrip(): s up to its last character that is not whitespace
RStrip(s) ==
    LET keep == {i \in 1..Len(s) : ~IsSpace(s[i])} IN
    IF keep = {} THEN <<>>
    ELSE SubSeq(s, 1, CHOOSE i \in keep : \A j \in keep : j <= i)

\* s.strip()
Strip(s) == RStrip(LStrip(s))

\* s.rstrip(c) for a single character c
RECURSIVE RStripChar(_, _)
RStripChar(s, c) ==
    IF s # <<>> /\ s[Len(s)] = c THEN RStripChar(SubSeq(s, 1, Len(s) - 1), c) ELSE s

\* s.split(): the maximal runs of characters that are not whitespace
RECURSIVE SplitWs(_)
SplitWs(s) ==
    LET t == LStrip(s) IN
    IF t = <<>> THEN <<>>
    ELSE LET ends == {i \in 1..Len(t) : IsSpace(t[i])}
             n == IF ends = {} THEN Len(t)
                  ELSE (CHOOSE i \in ends : \A j \in ends : i <= j) - 1
         IN <<SubSeq(t, 1, n)>> \o SplitWs(SubSeq(t, n + 1, Len(t)))

----------------------------------------------------------------------------
(* LSPServer: JSON values *)

\* None / null, where a dict may stand
None == [json |-> "null"]

\* None where a str may stand: no str has an element of several characters
NoneStr == <<"None">>

\* A JSON value that is no object (an array, a string, a number)
NonDict == [nondict |-> TRUE]

IsDict(v) == "nondict" \notin DOMAIN v

\* {}
EmptyDict == [k \in {} |-> k]

\* the id of a message without one: json.dumps writes message.get("id") as null
NoId == "null"

----------------------------------------------------------------------------
(* LSPServer: lookup tables *)

_get_capabilities ==
    [textDocumentSync |-> 1,
     hoverProvider |-> TRUE,
     completionProvider |-> [triggerCharacters |-> <<".", ":", "@">>,
                             resolveProvider |-> FALSE],
     signatureHelpProvider |-> [triggerCharacters |-> <<"(", ",">>],
     definitionProvider |-> TRUE,
     referencesProvider |-> TRUE,
     documentHighlightProvider |-> TRUE,
     documentSymbolProvider |-> TRUE,
     workspaceSymbolProvider |-> TRUE,
     codeActionProvider |-> TRUE,
     documentFormattingProvider |-> TRUE,
     renameProvider |-> TRUE]

hover_map ==
    [word \in {
        <<"C", "o", "g", "n", "i", "t", "i", "v", "e", "C", "i", "t", "y">>,
        <<"C", "o", "n", "t", "e", "x", "t", "u", "a", "l", "M", "e", "m", "o", "r", "y", "P", "a", "t", "t", "e", "r", "n">>,
        <<"O", "p", "e", "r", "a", "t", "i", "o", "n", "a", "l", "i", "z", "e", "d", "R", "A", "G", "F", "a", "b", "r", "i", "c">>,
        <<"N", "e", "u", "r", "a", "l", "T", "r", "a", "n", "s", "p", "o", "r", "t", "N", "e", "t", "w", "o", "r", "k">>,
        <<"p", "a", "r", "t", "i", "c", "l", "e", "_", "s", "w", "a", "r", "m">>,
        <<"a", "c", "t", "i", "v", "a", "t", "i", "o", "n", "_", "l", "a", "n", "d", "s", "c", "a", "p", "e">>,
        <<"s", "a", "l", "i", "e", "n", "c", "e", "_", "s", "c", "o", "r", "e">>,
        <<"e", "n", "t", "e", "r", "p", "r", "i", "s", "e", "_", "a", "i">>,
        <<"n", "e", "u", "r", "a", "l", "_", "t", "r", "a", "n", "s", "p", "o", "r", "t">>} |->
        CASE word = <<"C", "o", "g", "n", "i", "t", "i", "v", "e", "C", "i", "t", "y">> ->
                "**CognitiveCity**"
          [] word = <<"C", "o", "n", "t", "e", "x", "t", "u", "a", "l", "M", "e", "m", "o", "r", "y", "P", "a", "t", "t", "e", "r", "n">> ->
                "**ContextualMemoryPattern**"
          [] word = <<"O", "p", "e", "r", "a", "t", "i", "o", "n", "a", "l", "i", "z", "e", "d", "R", "A", "G", "F", "a", "b", "r", "i", "c">> ->
                "**OperationalizedRAGFabric**"
          [] word = <<"N", "e", "u", "r", "a", "l", "T", "r", "a", "n", "s", "p", "o", "r", "t", "N", "e", "t", "w", "o", "r", "k">> ->
                "**NeuralTransportNetwork**"
          [] word = <<"p", "a", "r", "t", "i", "c", "l", "e", "_", "s", "w", "a", "r", "m">> ->
                "**Particle Swarm**"
          [] word = <<"a", "c", "t", "i", "v", "a", "t", "i", "o", "n", "_", "l", "a", "n", "d", "s", "c", "a", "p", "e">> ->
                "**Activation Landscape**"
          [] word = <<"s", "a", "l", "i", "e", "n", "c", "e", "_", "s", "c", "o", "r", "e">> ->
                "**Salience Score**"
          [] word = <<"e", "n", "t", "e", "r", "p", "r", "i", "s", "e", "_", "a", "i">> ->
                "**Enterprise AI**"
          [] word = <<"n", "e", "u", "r", "a", "l", "_", "t", "r", "a", "n", "s", "p", "o", "r", "t">> ->
                "**Neural Transport**"]

\* hover_map.get(word)
_generate_hover_info(word) ==
    IF word \in DOMAIN hover_map THEN hover_map[word] ELSE "None"

_generate_completion_items ==
    <<[label |-> "CognitiveCity", kind |-> 7],
      [label |-> "ContextualMemoryPattern", kind |-> 7],
      [label |-> "neural_transport_channels", kind |-> 5],
      [label |-> "activation_landscape", kind |-> 5],
      [label |-> "salience_score", kind |-> 5],
      [label |-> "particle_swarm_optimize", kind |-> 2],
      [label |-> "register_cognitive_city", kind |-> 2]>>

----------------------------------------------------------------------------
(* LSPServer: pure helpers over documents (URI -> content) *)

\* the scan to the left left out: the word starts at the position
ScanLeftStuck(line, start) == start

RECURSIVE ScanLeft(_, _)
\* while start > 0 and (line[start - 1].isalnum() or line[start - 1] == '_')
ScanLeft(line, start) ==
    IF start > 0 /\ IsWordChar(At(line, start - 1))
    THEN ScanLeft(line, start - 1) ELSE start

RECURSIVE ScanRight(_, _)
\* while end < len(line) and (line[end].isalnum() or line[end] == '_')
ScanRight(line, end) ==
    IF end < Len(line) /\ IsWordChar(At(line, end))
    THEN ScanRight(line, end + 1) ELSE end

\* _get_word_at_position for a position that is a dict of two numbers >= 0
_get_word_at_position(docs, uri, position) ==
    IF uri \notin DOMAIN docs THEN NoneStr
    ELSE
        LET content == docs[uri]
            lines == SplitOn(content, "\n")
            line_num == Get(position, "line", 0)
            char_num == Get(position, "character", 0)
        IN IF line_num >= Len(lines) THEN NoneStr
           ELSE LET line == At(lines, line_num) IN
                IF char_num >= Len(line) THEN NoneStr
                ELSE LET start == ScanLeft(line, char_num)
                         end == ScanRight(line, char_num)
                     IN IF start < end THEN Slice(line, start, end) ELSE NoneStr

\* One line of _extract_symbols: the symbols (none or one) of line `line_num`
SymbolsOfLine(raw, line_num) ==
    LET line == Strip(raw) IN
    IF StartsWith(line, <<"c", "l", "a", "s", "s", " ">>)
    THEN LET class_name ==
                 RStripChar(SplitOn(SplitWs(line)[2], "(")[1], ":")
         IN <<[name |-> class_name, kind |-> 5,
               range |-> [start |-> [line |-> line_num, character |-> 0],
                          end |-> [line |-> line_num, character |-> Len(line)]],
               selectionRange |->
                    [start |-> [line |-> line_num, character |-> 6],
                     end |-> [line |-> line_num, character |-> 6 + Len(class_name)]]]>>
    ELSE IF \/ StartsWith(line, <<"d", "e", "f", " ">>)
            \/ StartsWith(line, <<"a", "s", "y", "n", "c", " ", "d", "e", "f", " ">>)
    THEN LET func_start == Find(line, <<"d", "e", "f", " ">>) + 4
             func_name == SplitOn(Slice(line, func_start, Len(line)), "(")[1]
         IN <<[name |-> func_name, kind |-> 12,
               range |-> [start |-> [line |-> line_num, character |-> 0],
                          end |-> [line |-> line_num, character |-> Len(line)]],
               selectionRange |->
                    [start |-> [line |-> line_num, character |-> func_start],
                     end |-> [line |-> line_num,
                              character |-> func_start + Len(func_name)]]]>>
    ELSE <<>>

RECURSIVE SymbolsFromOneBased(_, _)
\* enumerate(lines, 1): the lines counted from 1
SymbolsFromOneBased(lines, line_num) ==
    IF line_num >= Len(lines) THEN <<>>
    ELSE SymbolsOfLine(At(lines, line_num), line_num + 1)
         \o SymbolsFromOneBased(lines, line_num + 1)

RECURSIVE SymbolsFrom(_, _)
\* for line_num, line in enumerate(lines), from line_num on
SymbolsFrom(lines, line_num) ==
    IF line_num >= Len(lines) THEN <<>>
    ELSE SymbolsOfLine(At(lines, line_num), line_num) \o SymbolsFrom(lines, line_num + 1)

_extract_symbols(docs, uri) ==
    IF uri \notin DOMAIN docs THEN <<>>
    ELSE SymbolsFrom(SplitOn(docs[uri], "\n"), 0)

----------------------------------------------------------------------------
(* LSPServer: handlers.  Each gives [raised, result, documents,              *)
(* workspace_folders]: whether it raised, what it returned, and the server's *)
(* fields as it leaves them.                                                 *)

Raised(docs, wf) ==
    [raised |-> TRUE, result |-> None, documents |-> docs, workspace_folders |-> wf]

Returned(result, docs, wf) ==
    [raised |-> FALSE, result |-> result, documents |-> docs, workspace_folders |-> wf]

\* d[k] = v on a dict held as a function
Put(d, k, v) == [x \in DOMAIN d \cup {k} |-> IF x = k THEN v ELSE d[x]]

\* del d[k]
Del(d, k) == [x \in DOMAIN d \ {k} |-> d[x]]

_handle_initialize(params, docs, wf) ==
    IF ~IsDict(params) THEN Raised(docs, wf)
    ELSE Returned([capabilities |-> _get_capabilities,
                   serverInfo |-> [name |-> "cognitive-architecture-lsp",
                                   version |-> "1.0.0"]],
                  docs, Get(params, "workspaceFolders", <<>>))

\* _handle_did_open that takes a textDocument that is no object for {}
_handle_did_open_lenient(params, docs, wf) ==
    IF ~IsDict(params) THEN Raised(docs, wf)
    ELSE LET text_document == Get(params, "textDocument", EmptyDict) IN
         IF ~IsDict(text_document) THEN Returned(None, Put(docs, "", <<>>), wf)
         ELSE LET uri == Get(text_document, "uri", "")
                  text == Get(text_document, "text", <<>>)
              IN Returned(None, Put(docs, uri, text), wf)

_handle_did_open(params, docs, wf) ==
    IF ~IsDict(params) THEN Raised(docs, wf)
    ELSE LET text_document == Get(params, "textDocument", EmptyDict) IN
         IF ~IsDict(text_document) THEN Raised(docs, wf)
         ELSE LET uri == Get(text_document, "uri", "")
                  text == Get(text_document, "text", <<>>)
              IN Returned(None, Put(docs, uri, text), wf)

\* _handle_did_change without its test that the document is open
_handle_did_change_unguarded(params, docs, wf) ==
    IF ~IsDict(params) THEN Raised(docs, wf)
    ELSE LET text_document == Get(params, "textDocument", EmptyDict) IN
         IF ~IsDict(text_document) THEN Raised(docs, wf)
         ELSE LET uri == Get(text_document, "uri", "")
                  changes == Get(params, "contentChanges", <<>>)
              IN IF changes # <<>>
                 THEN IF ~IsDict(changes[1]) THEN Raised(docs, wf)
                      ELSE Returned(None, Put(docs, uri, Get(changes[1], "text", <<>>)), wf)
                 ELSE Returned(None, docs, wf)

_handle_did_change(params, docs, wf) ==
    IF ~IsDict(params) THEN Raised(docs, wf)
    ELSE LET text_document == Get(params, "textDocument", EmptyDict) IN
         IF ~IsDict(text_document) THEN Raised(docs, wf)
         ELSE LET uri == Get(text_document, "uri", "")
                  changes == Get(params, "contentChanges", <<>>)
              IN IF changes # <<>> /\ uri \in DOMAIN docs
                 THEN IF ~IsDict(changes[1]) THEN Raised(docs, wf)
                      ELSE Returned(None, Put(docs, uri, Get(changes[1], "text", <<>>)), wf)
                 ELSE Returned(None, docs, wf)

_handle_did_close(params, docs, wf) ==
    IF ~IsDict(params) THEN Raised(docs, wf)
    ELSE LET text_document == Get(params, "textDocument", EmptyDict) IN
         IF ~IsDict(text_document) THEN Raised(docs, wf)
         ELSE LET uri == Get(text_document, "uri", "")
              IN IF uri \in DOMAIN docs
                 THEN Returned(None, Del(docs, uri), wf)
                 ELSE Returned(None, docs, wf)

_handle_hover(params, docs, wf) ==
    IF ~IsDict(params) THEN Raised(docs, wf)
    ELSE LET text_document == Get(params, "textDocument", EmptyDict)
             position == Get(params, "position", EmptyDict)
         IN
         IF ~IsDict(text_document) THEN Raised(docs, wf)
         ELSE LET uri == Get(text_document, "uri", "") IN
              IF uri \notin DOMAIN docs THEN Returned(None, docs, wf)
              ELSE IF ~IsDict(position) THEN Raised(docs, wf)   \* position.get
              ELSE LET word == _get_word_at_position(docs, uri, position) IN
                   IF word = NoneStr \/ word = <<>> THEN Returned(None, docs, wf)
                   ELSE LET hover_info == _generate_hover_info(word) IN
                        IF hover_info = "None" THEN Returned(None, docs, wf)
                        ELSE Returned([contents |-> [kind |-> "markdown",
                                                     value |-> hover_info]],
                                      docs, wf)

_handle_completion(params, docs, wf) ==
    IF ~IsDict(params) THEN Raised(docs, wf)
    ELSE LET text_document == Get(params, "textDocument", EmptyDict) IN
         IF ~IsDict(text_document) THEN Raised(docs, wf)
         ELSE Returned([isIncomplete |-> FALSE, items |-> _generate_completion_items],
                       docs, wf)

\* A JSON array result is held in a record, [items |-> <<...>>].
_handle_definition(params, docs, wf) ==
    IF ~IsDict(params) THEN Raised(docs, wf)
    ELSE LET text_document == Get(params, "textDocument", EmptyDict)
             position == Get(params, "position", EmptyDict)
         IN
         IF ~IsDict(text_document) THEN Raised(docs, wf)
         ELSE LET uri == Get(text_document, "uri", "") IN
              IF uri \notin DOMAIN docs THEN Returned(None, docs, wf)
              ELSE IF ~IsDict(position) THEN Raised(docs, wf)   \* position.get
              ELSE LET word == _get_word_at_position(docs, uri, position) IN
                   IF word = NoneStr \/ word = <<>> THEN Returned(None, docs, wf)
                   ELSE Returned(
                          [items |-> <<[uri |-> uri,
                                        range |-> [start |-> [line |-> 0, character |-> 0],
                                                   end |-> [line |-> 0,
                                                            character |-> Len(word)]]]>>],
                          docs, wf)

_handle_document_symbol(params, docs, wf) ==
    IF ~IsDict(params) THEN Raised(docs, wf)
    ELSE LET text_document == Get(params, "textDocument", EmptyDict) IN
         IF ~IsDict(text_document) THEN Raised(docs, wf)
         ELSE LET uri == Get(text_document, "uri", "") IN
              IF uri \notin DOMAIN docs THEN Returned([items |-> <<>>], docs, wf)
              ELSE Returned([items |-> _extract_symbols(docs, uri)], docs, wf)

\* _send_response that loses the id
_send_response_without_id(msg_id, result) ==
    [jsonrpc |-> "2.0", id |-> NoId, result |-> result]

\* _send_response: the frame written to stdout
_send_response(msg_id, result) == [jsonrpc |-> "2.0", id |-> msg_id, result |-> result]

\* _process_message on what json.loads makes of the content: the frames it
\* writes (out), the server's fields afterwards, and whether sys.exit ran.
_process_message(message, docs, wf) ==
    LET Quiet(d, w) == [out |-> <<>>, documents |-> d, workspace_folders |-> w,
                        exit |-> FALSE]
        Respond(msg_id, h) ==
            IF h.raised THEN Quiet(docs, wf)
            ELSE [out |-> <<_send_response(msg_id, h.result)>>,
                  documents |-> h.documents, workspace_folders |-> h.workspace_folders,
                  exit |-> FALSE]
        Notify(h) == IF h.raised THEN Quiet(docs, wf)
                     ELSE Quiet(h.documents, h.workspace_folders)
    IN
    IF message.json # "object"
    THEN \* JSONDecodeError, or message.get raises AttributeError
         Quiet(docs, wf)
    ELSE
        LET data == message.data
            method == Get(data, "method", "")
            params == Get(data, "params", EmptyDict)
            msg_id == Get(data, "id", NoId)
        IN CASE method = "initialize" -> Respond(msg_id, _handle_initialize(params, docs, wf))
             [] method = "initialized" -> Quiet(docs, wf)
             [] method = "textDocument/didOpen" -> Notify(_handle_did_open(params, docs, wf))
             [] method = "textDocument/didChange" ->
                    Notify(_handle_did_change(params, docs, wf))
             [] method = "textDocument/didClose" ->
                    Notify(_handle_did_close(params, docs, wf))
             [] method = "textDocument/hover" ->
                    Respond(msg_id, _handle_hover(params, docs, wf))
             [] method = "textDocument/completion" ->
                    Respond(msg_id, _handle_completion(params, docs, wf))
             [] method = "textDocument/definition" ->
                    Respond(msg_id, _handle_definition(params, docs, wf))
             [] method = "textDocument/documentSymbol" ->
                    Respond(msg_id, _handle_document_symbol(params, docs, wf))
             [] method = "shutdown" -> Respond(msg_id, Returned(None, docs, wf))
             [] method = "exit" ->
                    [out |-> <<>>, documents |-> docs, workspace_folders |-> wf,
                     exit |-> TRUE]
             [] OTHER -> Quiet(docs, wf)

----------------------------------------------------------------------------
(* LSPServer: inputs *)

TextCall == <<"e", "n", "t", "e", "r", "p", "r", "i", "s", "e", "_", "a", "i", "(", "\n", "_", "x", "1", " ", "y">>

TextWord == <<"s", "a", "l", "i", "e", "n", "c", "e", "_", "s", "c", "o", "r", "e">>

TextEmpty == <<>>

URIs == {"file:///a", "file:///b"}

Positions == {[line |-> l, character |-> c] : l \in 0..MaxLine, c \in 0..MaxChar}

Obj(d) == [json |-> "object", data |-> d]

TextDocument(uri) == [textDocument |-> [uri |-> uri]]

DidOpenMessages ==
    {Obj([method |-> "textDocument/didOpen",
          params |-> [textDocument |-> [uri |-> "file:///a", text |-> t]]]) :
        t \in {TextCall, TextWord}}
    \cup {Obj([method |-> "textDocument/didOpen",
               params |-> [textDocument |-> [uri |-> "file:///b", text |-> TextWord]]]),
          \* no uri: the document is kept under ""
          Obj([method |-> "textDocument/didOpen",
               params |-> [textDocument |-> [text |-> TextWord]]])}

DidChangeMessages ==
    {Obj([method |-> "textDocument/didChange",
          params |-> [textDocument |-> [uri |-> "file:///a"], contentChanges |-> ch]]) :
        ch \in {<<>>, <<[text |-> TextEmpty]>>, <<[text |-> TextWord], [text |-> TextCall]>>}}
    \cup {Obj([method |-> "textDocument/didChange",
               params |-> [textDocument |-> [uri |-> "file:///b"],
                           contentChanges |-> <<[text |-> TextCall]>>]])}

DidCloseMessages ==
    {Obj([method |-> "textDocument/didClose", params |-> TextDocument(u)]) : u \in URIs}

DocNotifications == DidOpenMessages \cup DidChangeMessages \cup DidCloseMessages

HoverAt(uri, position) ==
    Obj([method |-> "textDocument/hover", id |-> "2",
         params |-> [textDocument |-> [uri |-> uri], position |-> position]])

HoverMessages ==
    {HoverAt("file:///a", [line |-> 0, character |-> 3]),
     HoverAt("file:///b", [line |-> 0, character |-> 3]),
     HoverAt("file:///a", [line |-> 1, character |-> 4]),
     \* no id, no position
     Obj([method |-> "textDocument/hover", params |-> TextDocument("file:///a")])}

DefinitionMessages ==
    {Obj([method |-> "textDocument/definition", id |-> "4",
          params |-> [textDocument |-> [uri |-> u], position |-> p]]) :
        u \in URIs, p \in {[line |-> 0, character |-> 3], [line |-> 1, character |-> 4]}}

OtherRequests ==
    {Obj([method |-> "initialize", id |-> "1",
          params |-> [workspaceFolders |-> <<"file:///workspace">>]]),
     Obj([method |-> "initialize", id |-> "1", params |-> EmptyDict]),
     Obj([method |-> "textDocument/completion", id |-> "3",
          params |-> TextDocument("file:///a")]),
     Obj([method |-> "textDocument/documentSymbol", id |-> "5",
          params |-> TextDocument("file:///a")]),
     Obj([method |-> "textDocument/documentSymbol", id |-> "5",
          params |-> TextDocument("file:///b")]),
     Obj([method |-> "shutdown", id |-> "6"]),
     Obj([method |-> "shutdown"])}

OtherNotifications ==
    {Obj([method |-> "initialized"]),
     Obj([method |-> "initialized", params |-> NonDict])}

\* Bodies that are no JSON, no JSON object, or make the handler raise
BadMessages ==
    {[json |-> "invalid"], [json |-> "nonobject"],
     Obj([method |-> "initialize", id |-> "1", params |-> NonDict]),
     Obj([method |-> "textDocument/didOpen", params |-> NonDict]),
     Obj([method |-> "textDocument/didOpen", params |-> [textDocument |-> NonDict]]),
     Obj([method |-> "textDocument/didChange",
          params |-> [textDocument |-> [uri |-> "file:///a"],
                      contentChanges |-> <<NonDict>>]]),
     Obj([method |-> "textDocument/didClose", params |-> NonDict]),
     Obj([method |-> "textDocument/hover", id |-> "2",
          params |-> [textDocument |-> [uri |-> "file:///a"], position |-> NonDict]]),
     Obj([method |-> "textDocument/definition", id |-> "4",
          params |-> [textDocument |-> [uri |-> "file:///a"], position |-> NonDict]]),
     Obj([method |-> "textDocument/completion", id |-> "3", params |-> NonDict]),
     Obj([method |-> "textDocument/documentSymbol", id |-> "5",
          params |-> [textDocument |-> NonDict]])}

UnhandledMessages ==
    {Obj([method |-> "workspace/symbol", id |-> "7", params |-> [query |-> "City"]]),
     Obj([id |-> "8"])}

ExitMessage == Obj([method |-> "exit"])

LSPMessages ==
    DocNotifications \cup HoverMessages \cup DefinitionMessages \cup OtherRequests
    \cup OtherNotifications \cup BadMessages \cup UnhandledMessages \cup {ExitMessage}

----------------------------------------------------------------------------
(* LSPServer: actions on parsed messages *)

\* The effect of _process_message(content) on the server and on stdout.
Process(message) ==
    \E r \in {_process_message(message, documents, workspace_folders)} :
        /\ documents' = r.documents
        /\ workspace_folders' = r.workspace_folders
        /\ stdout' = r.out
        /\ initialize_received' =
              (initialize_received
               \/ (message.json = "object"
                   /\ Get(message.data, "method", "") = "initialize"))

\* sys.exit(0) is reached
Exits(message) == _process_message(message, documents, workspace_folders).exit

\* The server is handed one message.
Serve(message) ==
    /\ pc = "serving"
    /\ Process(message)
    /\ pc' = IF Exits(message) THEN "exited" ELSE pc
    /\ last' = [op |-> "_process_message", message |-> message]
    /\ UNCHANGED <<hist, stdin, written, header, mcpVars, ecoVars>>

\* _get_word_at_position is called on the server's documents.
CallGetWord(uri, position) ==
    /\ pc = "serving"
    /\ last' = [op |-> "_get_word_at_position", uri |-> uri, position |-> position,
                result |-> _get_word_at_position(documents, uri, position)]
    /\ stdout' = <<>>
    /\ UNCHANGED <<documents, workspace_folders, pc, initialize_received,
                   hist, stdin, written, header, mcpVars, ecoVars>>

\* The server is handed one document notification; hist records it.
Notified(message) ==
    /\ pc = "serving"
    /\ Len(hist) < MaxNotes
    /\ Process(message)
    /\ pc' = IF Exits(message) THEN "exited" ELSE pc
    /\ hist' = Append(hist, message.data)
    /\ last' = [op |-> "_process_message", message |-> message]
    /\ UNCHANGED <<stdin, written, header, mcpVars, ecoVars>>

LSPFields ==
    /\ documents = EmptyDict
    /\ workspace_folders = <<>>
    /\ stdout = <<>>
    /\ initialize_received = FALSE
    /\ hist = <<>>
    /\ stdin = [buf |-> <<>>, pos |-> 0]
    /\ written = <<>>
    /\ header = EmptyDict

LSPInit ==
    /\ LSPFields
    /\ EcoFields
    /\ pc = "serving"
    /\ last = [op |-> "__init__"]
    /\ MCPFields
    /\ EcoFields

LSPNext == \E m \in LSPMessages : Serve(m)

LSPSpec == LSPInit /\ [][LSPNext]_vars

\* Documents are opened, then hovered over and looked into at every position.
LSPWordNext ==
    \/ \E m \in DidOpenMessages : Serve(m)
    \/ \E u \in URIs, p \in Positions : Serve(HoverAt(u, p))
    \/ \E u \in URIs, p \in Positions : CallGetWord(u, p)

LSPWordSpec == LSPInit /\ [][LSPWordNext]_vars

LSPDocNext == \E m \in DocNotifications : Notified(m)

LSPDocSpec == LSPInit /\ [][LSPDocNext]_vars

----------------------------------------------------------------------------
(* LSPServer._extract_symbols on documents of source lines *)

SourceLines ==
    {<<"c", "l", "a", "s", "s", " ", "A", "(", "B", ")", ":">>,
     <<"c", "l", "a", "s", "s", " ", "C", ":">>,
     <<" ", " ", "d", "e", "f", " ", "f", "(", "x", ")", ":">>,
     <<"a", "s", "y", "n", "c", " ", "d", "e", "f", " ", "g", "(", ")", ":">>,
     <<"x", " ", "=", " ", "1">>,
     <<"#", " ", "c", "l", "a", "s", "s", " ", "D">>}

RECURSIVE JoinLines(_)
\* "\n".join(lines)
JoinLines(lines) ==
    IF Len(lines) = 0 THEN <<>>
    ELSE IF Len(lines) = 1 THEN lines[1]
    ELSE lines[1] \o <<"\n">> \o JoinLines(Tail(lines))

RECURSIVE LineSeqs(_)
\* the sequences of at most n source lines
LineSeqs(n) ==
    IF n = 0 THEN {<<>>}
    ELSE LET shorter == LineSeqs(n - 1)
         IN shorter \cup {Append(t, l) : t \in {r \in shorter : Len(r) = n - 1},
                                         l \in SourceLines}

SourceTexts == {JoinLines(lines) : lines \in LineSeqs(MaxDocLines)}

SourceOpenMessages ==
    {Obj([method |-> "textDocument/didOpen",
          params |-> [textDocument |-> [uri |-> "file:///a", text |-> t]]]) :
        t \in SourceTexts}

\* _extract_symbols is called on the server's documents.
CallExtractSymbols(uri) ==
    /\ pc = "serving"
    /\ last' = [op |-> "_extract_symbols", uri |-> uri,
                result |-> _extract_symbols(documents, uri)]
    /\ stdout' = <<>>
    /\ UNCHANGED <<documents, workspace_folders, pc, initialize_received,
                   hist, stdin, written, header, mcpVars, ecoVars>>

LSPSymbolNext ==
    \/ \E m \in SourceOpenMessages : Serve(m)
    \/ \E u \in URIs : CallExtractSymbols(u)

LSPSymbolSpec == LSPInit /\ [][LSPSymbolNext]_vars

----------------------------------------------------------------------------
(* LSPServer.start_server: the loop over sys.stdin *)

\* sys.stdin is a sequence of characters with a read position. A header name
\* and the text between the braces of a JSON body count as one character.

\* sys.stdin.readline(): up to and including the next "\n", or to the end
readline(buf, pos) ==
    LET rest == SubSeq(buf, pos + 1, Len(buf))
        i == FindChar(rest, "\n")
    IN IF i = -1 THEN [line |-> rest, pos |-> Len(buf)]
       ELSE [line |-> Slice(rest, 0, i + 1), pos |-> pos + i + 1]

\* sys.stdin.read(length) for a length >= 0
read(buf, pos, length) ==
    LET to == IF pos + length > Len(buf) THEN Len(buf) ELSE pos + length
    IN [content |-> SubSeq(buf, pos + 1, to), pos |-> to]

\* s.isdigit()
IsDigit(s) == s # <<>> /\ \A i \in 1..Len(s) : s[i] \in Digits

RECURSIVE IntOf(_)
\* int(s) for a string of digits
IntOf(s) ==
    IF s = <<>> THEN 0
    ELSE 10 * IntOf(SubSeq(s, 1, Len(s) - 1))
         + (CHOOSE n \in 0..9 :
                <<"0", "1", "2", "3", "4", "5", "6", "7", "8", "9">>[n + 1] = s[Len(s)])

\* header.get("Content-Length", 0); a header value is [int |-> n] or [str |-> s]
ContentLengthOf(h) == Get(h, <<"Content-Length">>, [int |-> 0])

\* _read_content: read(length) raises for a length that is a str; none tells
\* that None is returned.
_read_content(length, buf, pos) ==
    IF "int" \notin DOMAIN length THEN [none |-> TRUE, content |-> <<>>, pos |-> pos]
    ELSE LET r == read(buf, pos, length.int)
         IN [none |-> r.content = <<>>, content |-> r.content, pos |-> r.pos]

\* The JSON objects a body may hold, by the text between its braces
BodyObjects ==
    [b \in {"open", "initialize", "raise"} |->
        CASE b = "open" ->
                 [method |-> "textDocument/didOpen",
                  params |-> [textDocument |-> [uri |-> "file:///a", text |-> TextWord]]]
          [] b = "initialize" ->
                 [method |-> "initialize", id |-> "1",
                  params |-> [workspaceFolders |-> <<"file:///workspace">>]]
          [] b = "raise" ->
                 [method |-> "textDocument/didOpen", params |-> [textDocument |-> NonDict]]]

\* json.loads(content): whitespace around the value is skipped
loads(content) ==
    LET c == Strip(content) IN
    IF Len(c) = 3 /\ c[1] = "{" /\ c[3] = "}" /\ c[2] \in DOMAIN BodyObjects
    THEN Obj(BodyObjects[c[2]])
    ELSE IF c = <<"[", "]">> THEN [json |-> "nonobject"]
    ELSE [json |-> "invalid"]

----------------------------------------------------------------------------
(* What a client writes to the server's stdin *)

Padding == <<" ", " ", " ", " ", " ", " ", " ">>

Bodies ==
    {<<"{", "open", "}">>, <<"{", "initialize", "}">> \o Padding, <<"{", "raise", "}">>,
     <<"{", "oops">>, <<"[", "]">>}

\* A framed message, a header block without Content-Length, and one with
\* Content-Length: 0
Frames ==
    {[kind |-> "message", body |-> b] : b \in Bodies}
    \cup {[kind |-> "no_length"], [kind |-> "zero_length"]}

\* the decimal digits of n < 100
Decimal(n) ==
    LET d == <<"0", "1", "2", "3", "4", "5", "6", "7", "8", "9">>
    IN IF n < 10 THEN <<d[n + 1]>> ELSE <<d[(n \div 10) + 1], d[(n % 10) + 1]>>

ContentType == <<"Content-Type", ":", " ", "u", "t", "f", "8", "\r", "\n">>

HeaderBlock(frame) ==
    CASE frame.kind = "message" ->
             <<"Content-Length", ":", " ">> \o Decimal(Len(frame.body)) \o <<"\r", "\n">>
             \o (IF Len(frame.body) >= 10 THEN ContentType ELSE <<>>) \o <<"\r", "\n">>
      [] frame.kind = "no_length" -> ContentType \o <<"\r", "\n">>
      [] frame.kind = "zero_length" ->
             <<"Content-Length", ":", " ", "0", "\r", "\n", "\r", "\n">>

Render(frame) ==
    HeaderBlock(frame) \o (IF frame.kind = "message" THEN frame.body ELSE <<>>)

RECURSIVE RenderAll(_)
RenderAll(frames) ==
    IF frames = <<>> THEN <<>> ELSE Render(Head(frames)) \o RenderAll(Tail(frames))

RECURSIVE FrameSeqs(_)
\* the sequences of at most n frames
FrameSeqs(n) ==
    IF n = 0 THEN {<<>>}
    ELSE LET shorter == FrameSeqs(n - 1)
         IN shorter \cup {Append(s, f) : s \in {t \in shorter : Len(t) = n - 1}, f \in Frames}

----------------------------------------------------------------------------
(* start_server: pc is "header" inside _read_header, "content" after it *)

Step(name) == [op |-> "start_server", step |-> name]

\* _read_header reads a line that is not empty
HeaderLine ==
    /\ pc = "header"
    /\ \E rl \in {readline(stdin.buf, stdin.pos)} : \E line \in {Strip(rl.line)} :
          /\ line # <<>>
          /\ \E i \in {FindChar(line, ":")} :
                \E key \in {Strip(Slice(line, 0, i))} :
                \E value \in {Strip(Slice(line, i + 1, Len(line)))} :
                   header' = IF i # -1
                             THEN Put(header, key,
                                      IF IsDigit(value) THEN [int |-> IntOf(value)]
                                      ELSE [str |-> value])
                             ELSE header
          /\ stdin' = [stdin EXCEPT !.pos = rl.pos]
    /\ stdout' = <<>>
    /\ last' = Step("_read_header")
    /\ UNCHANGED <<documents, workspace_folders, initialize_received, hist, written,
                   pc, mcpVars, ecoVars>>

\* _read_header reads an empty line with a header: it returns the header
HeaderEnd ==
    /\ pc = "header"
    /\ header # EmptyDict
    /\ \E rl \in {readline(stdin.buf, stdin.pos)} :
          /\ Strip(rl.line) = <<>>
          /\ stdin' = [stdin EXCEPT !.pos = rl.pos]
    /\ pc' = "content"
    /\ stdout' = <<>>
    /\ last' = Step("_read_header")
    /\ UNCHANGED <<documents, workspace_folders, initialize_received, hist, written,
                   header, mcpVars, ecoVars>>

\* _read_header reads an empty line without a header: None, and break
LoopStop ==
    /\ pc = "header"
    /\ header = EmptyDict
    /\ \E rl \in {readline(stdin.buf, stdin.pos)} :
          /\ Strip(rl.line) = <<>>
          /\ stdin' = [stdin EXCEPT !.pos = rl.pos]
    /\ pc' = "stopped"
    /\ stdout' = <<>>
    /\ last' = Step("break")
    /\ UNCHANGED <<documents, workspace_folders, initialize_received, hist, written,
                   header, mcpVars, ecoVars>>

\* a LoopSkip that leaves the loop
LoopSkipBreaks ==
    /\ pc = "content"
    /\ ContentLengthOf(header) = [int |-> 0]
    /\ pc' = "stopped"
    /\ header' = EmptyDict
    /\ stdout' = <<>>
    /\ last' = Step("continue")
    /\ UNCHANGED <<documents, workspace_folders, initialize_received, hist, written,
                   stdin, mcpVars, ecoVars>>

\* content_length == 0: continue
LoopSkip ==
    /\ pc = "content"
    /\ ContentLengthOf(header) = [int |-> 0]
    /\ pc' = "header"
    /\ header' = EmptyDict
    /\ stdout' = <<>>
    /\ last' = Step("continue")
    /\ UNCHANGED <<documents, workspace_folders, initialize_received, hist, written,
                   stdin, mcpVars, ecoVars>>

\* _read_content returns None: continue
LoopNoContent ==
    /\ pc = "content"
    /\ ContentLengthOf(header) # [int |-> 0]
    /\ \E c \in {_read_content(ContentLengthOf(header), stdin.buf, stdin.pos)} :
          /\ c.none
          /\ stdin' = [stdin EXCEPT !.pos = c.pos]
    /\ pc' = "header"
    /\ header' = EmptyDict
    /\ stdout' = <<>>
    /\ last' = Step("no content")
    /\ UNCHANGED <<documents, workspace_folders, initialize_received, hist, written,
                   mcpVars, ecoVars>>

\* the content is handed to _process_message
LoopProcess ==
    /\ pc = "content"
    /\ ContentLengthOf(header) # [int |-> 0]
    /\ \E c \in {_read_content(ContentLengthOf(header), stdin.buf, stdin.pos)} :
          /\ ~c.none
          /\ stdin' = [stdin EXCEPT !.pos = c.pos]
          /\ \E message \in {loads(c.content)} :
                /\ Process(message)
                /\ pc' = IF Exits(message) THEN "exited" ELSE "header"
          /\ hist' = Append(hist, [content |-> c.content, out |-> stdout'])
          /\ last' = [op |-> "start_server", step |-> "process", content |-> c.content]
    /\ header' = EmptyDict
    /\ UNCHANGED <<written, mcpVars, ecoVars>>

\* the cuts of the frames: inside the last frame or at its end
Cuts(frames) ==
    IF frames = <<>> THEN {0}
    ELSE (Len(RenderAll(SubSeq(frames, 1, Len(frames) - 1))) + 1)..Len(RenderAll(frames))

\* The client has written some frames and closed the pipe, perhaps in the
\* middle of the last one; start_server is entering _read_header.
LSPStdioInit ==
    /\ written \in FrameSeqs(MaxFrames)
    /\ \E cut \in Cuts(written) :
          stdin = [buf |-> SubSeq(RenderAll(written), 1, cut), pos |-> 0]
    /\ documents = EmptyDict
    /\ workspace_folders = <<>>
    /\ stdout = <<>>
    /\ initialize_received = FALSE
    /\ hist = <<>>
    /\ header = EmptyDict
    /\ pc = "header"
    /\ last = [op |-> "__init__"]
    /\ MCPFields
    /\ EcoFields

LSPStdioNext ==
    HeaderLine \/ HeaderEnd \/ LoopStop \/ LoopSkip \/ LoopNoContent \/ LoopProcess

\* The loop awaits nothing that another task could hold up: it keeps running.
LSPStdioSpec == LSPStdioInit /\ [][LSPStdioNext]_vars /\ WF_vars(LSPStdioNext)

----------------------------------------------------------------------------
(* The MCP server on its own *)

MCPInit ==
    /\ MCPFields
    /\ EcoFields
    /\ last = [op |-> "__init__"]
    /\ LSPFields
    /\ pc = "serving"

MCPNext ==
    \/ \E w \in Sockets : Connect(w)
    \/ \E w \in Sockets, m \in MCPMessages : ProcessMessage(w, m)
    \/ \E w \in Sockets : PeerClose(w)
    \/ \E w \in Sockets, how \in {"normal", "ConnectionClosed"} : HandlerEnd(w, how)
    \/ \E w \in Sockets : HandlerRaise(w)

MCPSpec == MCPInit /\ [][MCPNext]_vars


----------------------------------------------------------------------------
(* Claims about MCPServer, checked under MCPSpec *)

Range(seq) == {seq[i] : i \in DOMAIN seq}

\* The response type the dispatch table of the interface description gives
\* for the `type` field of a JSON object.
ExpectedResponseType(data) ==
    LET t == IF "type" \in DOMAIN data THEN data.type ELSE "(missing)"
    IN CASE t = "study_request" -> "study_response"
         [] t = "cognitive_architecture_query" -> "cognitive_query_response"
         [] t = "neural_transport" -> "neural_transport_response"
         [] t = "protocol_introspection" -> "protocol_introspection_response"
         [] OTHER -> "error"

\* The last step was process_message for a client whose connection is up.
Processed(w) ==
    /\ last.op = "process_message"
    /\ last.client = w
    /\ conn[w] = "open"

C2_OneResponseToSender ==
    \A w \in Sockets :
        Processed(w)
        => /\ Len(sent[w]) = 1
           /\ \A o \in Sockets \ {w} : sent[o] = <<>>
           /\ last.message.json = "invalid"
                => sent[w][1] = [type |-> "error", error |-> "Invalid JSON format"]
           /\ last.message.json = "nonobject" => sent[w][1].type = "error"
           /\ handler[w] = "running"
           /\ ClientId(w) \in clients

\* Two clients are connected; one has just sent a frame that is no JSON
\* object and was answered, the other was sent nothing.
C2_Witness ==
    \E w, o \in Sockets :
        /\ w # o
        /\ Processed(w)
        /\ last.message.json = "nonobject"
        /\ handler[o] = "running" /\ conn[o] = "open"
        /\ sent[w] = <<[type |-> "error", error |-> "AttributeError"]>>

\* C3: clients holds exactly the clients whose handler is running, however
\* the connection ended; a status report gives connected_clients as the size
\* of clients and active_sessions as the size of study_sessions.
C3_ClientsAreRunningHandlers ==
    /\ clients = {ClientId(w) : w \in {x \in Sockets : handler[x] = "running"}}
    /\ \A w \in Sockets :
            (/\ Processed(w)
             /\ last.message.json = "object"
             /\ Get(last.message.data, "type", "unknown") = "protocol_introspection"
             /\ Get(last.message.data, "introspection_type", "status") = "status")
            => /\ sent[w][1].result.connected_clients = Cardinality(clients)
               /\ sent[w][1].result.active_sessions = Len(study_sessions)

\* A client is told of one connected client and one session after its peer
\* has left.
C3_Witness ==
    \E w \in Sockets :
        /\ Processed(w)
        /\ Len(sent[w]) = 1
        /\ sent[w][1].type = "protocol_introspection_response"
        /\ sent[w][1].introspection_type = "status"
        /\ sent[w][1].result.connected_clients = 1
        /\ sent[w][1].result.active_sessions = 1
        /\ clients = {ClientId(w)}
        /\ \E o \in Sockets \ {w} : handler[o] = "none" /\ Len(study_sessions) = 1

\* The value of a field of a request, "(missing)" when the request has none.
Field(data, k) == IF k \in DOMAIN data THEN data[k] ELSE "(missing)"

NotYetImplemented(content) ==
    "message" \in DOMAIN content /\ content.message = "not yet implemented"

\* C4: the lists of get_protocol_capabilities agree with the dispatch:
\* supported_message_types are exactly the types routed to a non-error
\* response, study_types exactly the study types whose content is not the
\* 'not yet implemented' message, query_types exactly the query types whose
\* result has no error field.
C4_CapabilitiesMatchDispatch ==
    LET caps == get_protocol_capabilities IN
    /\ \A t \in Range(caps.supported_message_types) :
            \E m \in MCPMessages : m.json = "object" /\ Field(m.data, "type") = t
    /\ \A t \in Range(caps.study_types) :
            \E d \in StudyRequests : Field(d, "study_type") = t
    /\ \A t \in Range(caps.query_types) :
            \E d \in CognitiveQueries : Field(d, "query_type") = t
    /\ \A w \in Sockets :
          (Processed(w) /\ last.message.json = "object")
          => LET data == last.message.data
                 r == sent[w][1]
             IN /\ r.type # "error"
                    <=> Field(data, "type") \in Range(caps.supported_message_types)
                /\ r.type = "study_response"
                    => (~NotYetImplemented(r.content)
                        <=> Field(data, "study_type") \in Range(caps.study_types))
                /\ r.type = "cognitive_query_response"
                    => ("error" \notin DOMAIN r.result
                        <=> Field(data, "query_type") \in Range(caps.query_types))

\* A study request of a type that is not advertised was answered with the
\* 'not yet implemented' content.
C4_Witness ==
    \E w \in Sockets :
        /\ Processed(w)
        /\ last.message.json = "object"
        /\ Field(last.message.data, "study_type") = "quantum"
        /\ Len(sent[w]) = 1
        /\ sent[w][1].type = "study_response"
        /\ NotYetImplemented(sent[w][1].content)

----------------------------------------------------------------------------
(* LSPServer.documents under document notifications *)

Max(S) == CHOOSE x \in S : \A y \in S : y <= x

NoteUri(n) == Get(n.params.textDocument, "uri", "")

IsOpenOf(n, u) == n.method = "textDocument/didOpen" /\ NoteUri(n) = u

IsCloseOf(n, u) == n.method = "textDocument/didClose" /\ NoteUri(n) = u

\* a didChange of u with at least one content change
IsEditOf(n, u) ==
    n.method = "textDocument/didChange" /\ NoteUri(n) = u /\ n.params.contentChanges # <<>>

\* the didOpen notifications of u in h that no later didClose of u follows
OpenedAt(h, u) ==
    {i \in 1..Len(h) : IsOpenOf(h[i], u) /\ \A j \in (i + 1)..Len(h) : ~IsCloseOf(h[j], u)}

TextAfter(h, u) ==
    LET i == Max(OpenedAt(h, u))
        edits == {j \in (i + 1)..Len(h) : IsEditOf(h[j], u)}
    IN IF edits = {} THEN Get(h[i].params.textDocument, "text", <<>>)
       ELSE Get(h[Max(edits)].params.contentChanges[1], "text", <<>>)

ExpectedDocuments(h) ==
    [u \in {v \in URIs \cup {""} : OpenedAt(h, v) # {}} |-> TextAfter(h, u)]

\* C5: after any sequence of didOpen, didChange and didClose notifications,
\* documents maps exactly the URIs opened and not closed since, each to the
\* text of its latest didOpen or, if later, to the text of the first content
\* change of its latest non-empty didChange; a didChange or didClose of a URI
\* that is not open changes nothing.
C5_DocumentsFollowNotifications == documents = ExpectedDocuments(hist)

\* A change of a URI that is not open, then an open and a change of another.
C5_Witness ==
    /\ Len(hist) = 3
    /\ IsEditOf(hist[1], "file:///b")
    /\ IsOpenOf(hist[2], "file:///a")
    /\ IsEditOf(hist[3], "file:///a")
    /\ DOMAIN documents = {"file:///a"}
    /\ documents["file:///a"] = TextEmpty

----------------------------------------------------------------------------
(* Responses of LSPServer._process_message *)

RequestMethods ==
    {"initialize", "textDocument/hover", "textDocument/completion",
     "textDocument/definition", "textDocument/documentSymbol", "shutdown"}

NotificationMethods ==
    {"initialized", "textDocument/didOpen", "textDocument/didChange",
     "textDocument/didClose"}

\* the last step served a message that parses and whose handler did not raise
ServedWellFormed == last.op = "_process_message" /\ last.message \notin BadMessages

MethodOfLast == Get(last.message.data, "method", "")

----------------------------------------------------------------------------
(* Words and hovers at a position *)

\* the indices (from 1) of the newlines of text, and its lines counted from 0
NewlinesOf(text) == {i \in 1..Len(text) : text[i] = "\n"}

NumLines(text) == Cardinality(NewlinesOf(text)) + 1

\* the index after which line k starts, and the index at which it ends
LineFrom(text, k) ==
    IF k = 0 THEN 0
    ELSE CHOOSE i \in NewlinesOf(text) :
            Cardinality({j \in NewlinesOf(text) : j < i}) = k - 1

LineUpTo(text, k) ==
    IF k = NumLines(text) - 1 THEN Len(text)
    ELSE (CHOOSE i \in NewlinesOf(text) :
            Cardinality({j \in NewlinesOf(text) : j < i}) = k) - 1

LineOf(text, k) == SubSeq(text, LineFrom(text, k) + 1, LineUpTo(text, k))

\* the position is inside line p.line of the open document u
InDocument(docs, u, p) ==
    /\ u \in DOMAIN docs
    /\ p.line < NumLines(docs[u])
    /\ p.character < Len(LineOf(docs[u], p.line))

\* the position's character is a letter, a digit or an underscore
OnWord(docs, u, p) ==
    InDocument(docs, u, p) /\ IsWordChar(LineOf(docs[u], p.line)[p.character + 1])

\* the maximal run of word characters of the line that contains the position
WordOn(docs, u, p) ==
    LET line == LineOf(docs[u], p.line)
        c == p.character + 1
        from == CHOOSE i \in 1..c :
                    /\ \A j \in i..c : IsWordChar(line[j])
                    /\ (i = 1 \/ ~IsWordChar(line[i - 1]))
        to == CHOOSE i \in c..Len(line) :
                    /\ \A j \in c..i : IsWordChar(line[j])
                    /\ (i = Len(line) \/ ~IsWordChar(line[i + 1]))
    IN SubSeq(line, from, to)

HoverServed(l) ==
    /\ l.op = "_process_message"
    /\ l.message \in {HoverAt(u, p) : u \in URIs, p \in Positions}

\* C7: _handle_hover returns markdown contents only when the URI is open, the
\* position lies on a word and the word is a key of the hover table; in
\* every other case it returns None; it never changes documents.
C7_HoverOnlyOnKnownWord ==
    [][HoverServed(last') =>
        LET params == last'.message.data.params
            u == params.textDocument.uri
            p == params.position
            result == stdout'[1].result
            known == OnWord(documents, u, p) /\ WordOn(documents, u, p) \in DOMAIN hover_map
        IN /\ documents' = documents
           /\ result # None => result.contents.kind = "markdown"
           /\ ~known => result = None]_vars

----------------------------------------------------------------------------
(* start_server over framed input *)

\* the characters of stdin that precede the i-th frame written
Before(i) == Len(RenderAll(SubSeq(written, 1, i - 1)))

\* what arrived of the body of the i-th frame written
ArrivedBody(i) ==
    LET from == Before(i) + Len(HeaderBlock(written[i]))
        to == from + Len(written[i].body)
    IN SubSeq(stdin.buf, from + 1, IF to > Len(stdin.buf) THEN Len(stdin.buf) ELSE to)

RECURSIVE ArrivedFrom(_)
\* the bodies that arrived, whole or in part, of frames i, i + 1, ... in order
ArrivedFrom(i) ==
    IF i > Len(written) THEN <<>>
    ELSE (IF written[i].kind = "message" /\ ArrivedBody(i) # <<>>
          THEN <<ArrivedBody(i)>> ELSE <<>>) \o ArrivedFrom(i + 1)

Contents(h) == [i \in 1..Len(h) |-> h[i].content]

\* When start_server has stopped it has read all its input and has handled
\* the bodies that arrived, each once, in the order of arrival.
C8_HandledInOrder ==
    pc = "stopped" => (stdin.pos = Len(stdin.buf) /\ Contents(hist) = ArrivedFrom(1))

IsBadBody(content) ==
    Strip(content) \notin {<<"{", "open", "}">>, <<"{", "initialize", "}">>}

\* a pass of the loop that hands a bad body to _process_message
BadBodyStep ==
    /\ last'.op = "start_server"
    /\ last'.step = "process"
    /\ IsBadBody(last'.content)

\* C9: a message whose body is not valid JSON, is not a JSON object, or makes
\* its handler raise produces no response, leaves documents and
\* workspace_folders unchanged, and does not stop start_server from
\* processing the messages that follow it.
C9_BadBodyIsPassedOver ==
    /\ [][BadBodyStep =>
            /\ stdout' = <<>>
            /\ documents' = documents
            /\ workspace_folders' = workspace_folders
            /\ pc' = "header"]_vars
    /\ [](pc = "stopped" /\ (\E i \in 1..Len(hist) : IsBadBody(hist[i].content))
            => Contents(hist) = ArrivedFrom(1))

\* A body that is no object is passed over; the initialize after it is answered.
C9_Witness ==
    /\ pc = "stopped"
    /\ Len(hist) = 2
    /\ hist[1].content = <<"[", "]">>
    /\ hist[1].out = <<>>
    /\ Len(hist[2].out) = 1

----------------------------------------------------------------------------
(* _get_word_at_position *)

\* C10: _get_word_at_position returns, for a position whose character is a
\* letter, digit or underscore, the whole maximal run of such characters of
\* the line that contains the position, and None when the URI is not open or
\* the line or character index is past the end.
C10_WordAtPosition ==
    last.op = "_get_word_at_position" =>
        /\ OnWord(documents, last.uri, last.position) =>
               last.result = WordOn(documents, last.uri, last.position)
        /\ ~InDocument(documents, last.uri, last.position) => last.result = NoneStr

\* The position is in the middle of _x1, on the second line.
C10_Witness ==
    /\ last.op = "_get_word_at_position"
    /\ last.position = [line |-> 1, character |-> 1]
    /\ OnWord(documents, last.uri, last.position)
    /\ last.result = <<"_", "x", "1">>

----------------------------------------------------------------------------
(* Symbols of a document *)

\* the maximal run of word characters of line from index i (from 1) on
NameFrom(line, i) ==
    LET stops == {j \in i..Len(line) : ~IsWordChar(line[j])}
    IN SubSeq(line, i, IF stops = {} THEN Len(line)
                       ELSE (CHOOSE j \in stops : \A k \in stops : j <= k) - 1)

\* what a stripped line defines: its kind and name, or kind 0 for nothing
DefinedBy(line) ==
    IF StartsWith(line, <<"c", "l", "a", "s", "s", " ">>)
    THEN [kind |-> 5, name |-> NameFrom(line, 7)]
    ELSE IF StartsWith(line, <<"d", "e", "f", " ">>)
    THEN [kind |-> 12, name |-> NameFrom(line, 5)]
    ELSE IF StartsWith(line, <<"a", "s", "y", "n", "c", " ", "d", "e", "f", " ">>)
    THEN [kind |-> 12, name |-> NameFrom(line, 11)]
    ELSE [kind |-> 0, name |-> <<>>]

\* the numbers (from 0) of the lines of text that define something
DefiningLines(text) ==
    {k \in 0..(NumLines(text) - 1) : DefinedBy(Strip(LineOf(text, k))).kind # 0}

\* name, kind and line of the definitions of text, in document order
ExpectedSymbols(text) ==
    [i \in 1..Cardinality(DefiningLines(text)) |->
        LET k == CHOOSE n \in DefiningLines(text) :
                    Cardinality({m \in DefiningLines(text) : m < n}) = i - 1
            d == DefinedBy(Strip(LineOf(text, k)))
        IN [name |-> d.name, kind |-> d.kind, line |-> k]]

SymbolsFound(symbols) ==
    [i \in 1..Len(symbols) |->
        [name |-> symbols[i].name, kind |-> symbols[i].kind,
         line |-> symbols[i].range.start.line]]

----------------------------------------------------------------------------
(* ReproducibleAIBuilder.  A dict is held with the order of its keys, which *)
(* is the order the for loops go through it.                                 *)

\* The most components component_registry holds.
MaxComponents == 2

\* hashlib.sha256(...).hexdigest(): one digest per content
Sha256(content) == [sha256 |-> content]

\* digest[:8]
Prefix8(digest) == [prefix8 |-> digest]

SourceSpecification == [type |-> "git"]

\* f"{name}-{version}-{source_hash[:8]}"
ComponentKey(name, version, source_hash) ==
    <<name, "-", version, "-", Prefix8(source_hash)>>

\* The name and version pairs components are defined with.
NameVersions == {<<"model", "1.0">>, <<"model", "2.0">>, <<"data", "1.0">>}

RegistryKeys ==
    {ComponentKey(nv[1], nv[2], Sha256(SourceSpecification)) : nv \in NameVersions}

KeyOf(name, version) == ComponentKey(name, version, Sha256(SourceSpecification))

\* a build input that names no component
External == <<"python-pytorch">>

\* The "inputs" lists of build procedures.
InputLists ==
    {<<>>, <<External>>,
     <<KeyOf("data", "1.0")>>, <<KeyOf("model", "1.0")>>, <<KeyOf("model", "2.0")>>,
     <<KeyOf("data", "1.0"), External>>,
     <<KeyOf("model", "2.0"), KeyOf("data", "1.0")>>,
     <<KeyOf("data", "1.0"), KeyOf("data", "1.0")>>}

\* The target_components lists manifests are generated for.
TargetLists ==
    {<<>>, <<External>>,
     <<KeyOf("model", "1.0")>>, <<KeyOf("model", "2.0")>>, <<KeyOf("data", "1.0")>>,
     <<KeyOf("model", "1.0"), KeyOf("model", "2.0")>>,
     <<KeyOf("data", "1.0"), KeyOf("model", "1.0")>>,
     <<KeyOf("model", "1.0"), External>>}

BuildComponent(name, version, source_hash, build_procedure) ==
    [name |-> name,
     version |-> version,
     source_hash |-> source_hash,
     build_inputs |-> Get(build_procedure, "inputs", <<>>),
     build_outputs |-> Get(build_procedure, "outputs", <<>>),
     build_system |-> Get(build_procedure, "build_system", "generic")]

\* dataclasses.asdict(component): a dict, which has items and no attributes
asdict(component) == [items |-> component]

BuildProcedures == {[inputs |-> i, outputs |-> <<"artifact">>] : i \in InputLists}

\* graph = {} and the dict operations on it
EmptyGraph == [keys |-> <<>>, deps |-> [k \in {} |-> <<>>]]

HasKey(graph, k) == \E i \in DOMAIN graph.keys : graph.keys[i] = k

\* dependency_graph.get(node, [])
GraphGet(graph, node) == IF HasKey(graph, node) THEN graph.deps[node] ELSE <<>>

RECURSIVE add_dependencies(_, _, _)
RECURSIVE add_build_inputs(_, _, _, _, _)

\* a walk that keeps only the keys of registered components
add_dependencies_registered(registry, graph, component_key) ==
    IF HasKey(graph, component_key) \/ component_key \notin DOMAIN registry THEN graph
    ELSE add_build_inputs(registry,
                          [keys |-> Append(graph.keys, component_key),
                           deps |-> Put(graph.deps, component_key, <<>>)],
                          component_key, registry[component_key].build_inputs, 1)

add_dependencies(registry, graph, component_key) ==
    IF HasKey(graph, component_key) THEN graph
    ELSE LET g == [keys |-> Append(graph.keys, component_key),
                   deps |-> Put(graph.deps, component_key, <<>>)]
         IN  IF component_key \in DOMAIN registry
             THEN add_build_inputs(registry, g, component_key,
                                   registry[component_key].build_inputs, 1)
             ELSE g

\* for dep in component.build_inputs, from the i-th on
add_build_inputs(registry, graph, component_key, build_inputs, i) ==
    IF i > Len(build_inputs) THEN graph
    ELSE LET dep == build_inputs[i]
             g == [graph EXCEPT !.deps[component_key] = Append(@, dep)]
         IN  add_build_inputs(registry, add_dependencies(registry, g, dep),
                              component_key, build_inputs, i + 1)

RECURSIVE add_targets(_, _, _, _)

\* for target in target_components, from the i-th on
add_targets(registry, graph, target_components, i) ==
    IF i > Len(target_components) THEN graph
    ELSE add_targets(registry, add_dependencies(registry, graph, target_components[i]),
                     target_components, i + 1)

_resolve_dependency_graph(registry, target_components) ==
    add_targets(registry, EmptyGraph, target_components, 1)

RECURSIVE visit_preorder(_, _, _)
RECURSIVE visit_each_preorder(_, _, _, _)

visit_preorder(dependency_graph, state, node) ==
    IF node \in state.visited THEN state
    ELSE visit_each_preorder(dependency_graph,
                             [visited |-> state.visited \cup {node},
                              result |-> Append(state.result, node)],
                             GraphGet(dependency_graph, node), 1)

visit_each_preorder(dependency_graph, state, nodes, i) ==
    IF i > Len(nodes) THEN state
    ELSE visit_each_preorder(dependency_graph,
                             visit_preorder(dependency_graph, state, nodes[i]),
                             nodes, i + 1)

\* a sort that places every node before its dependencies
_topological_sort_preorder(dependency_graph) ==
    visit_each_preorder(dependency_graph, [visited |-> {}, result |-> <<>>],
                        dependency_graph.keys, 1).result

RECURSIVE visit_again(_, _, _)
RECURSIVE visit_each_again(_, _, _, _)

visit_again(dependency_graph, state, node) ==
    IF node \in state.visited THEN [state EXCEPT !.result = Append(@, node)]
    ELSE LET s == visit_each_again(dependency_graph,
                                   [state EXCEPT !.visited = @ \cup {node}],
                                   GraphGet(dependency_graph, node), 1)
         IN  [s EXCEPT !.result = Append(@, node)]

visit_each_again(dependency_graph, state, nodes, i) ==
    IF i > Len(nodes) THEN state
    ELSE visit_each_again(dependency_graph,
                          visit_again(dependency_graph, state, nodes[i]),
                          nodes, i + 1)

\* a sort that lists a node again each time it is met again
_topological_sort_again(dependency_graph) ==
    visit_each_again(dependency_graph, [visited |-> {}, result |-> <<>>],
                     dependency_graph.keys, 1).result

RECURSIVE visit(_, _, _)
RECURSIVE visit_each(_, _, _, _)

\* state holds the visited set and the result list
visit(dependency_graph, state, node) ==
    IF node \in state.visited THEN state
    ELSE LET s == visit_each(dependency_graph,
                             [state EXCEPT !.visited = @ \cup {node}],
                             GraphGet(dependency_graph, node), 1)
         IN  [s EXCEPT !.result = Append(@, node)]

\* for n in nodes: visit(n), from the i-th on
visit_each(dependency_graph, state, nodes, i) ==
    IF i > Len(nodes) THEN state
    ELSE visit_each(dependency_graph, visit(dependency_graph, state, nodes[i]),
                    nodes, i + 1)

_topological_sort(dependency_graph) ==
    visit_each(dependency_graph, [visited |-> {}, result |-> <<>>],
               dependency_graph.keys, 1).result

RECURSIVE _generate_verification_checksums(_)

_generate_verification_checksums(components) ==
    IF components = <<>> THEN [k \in {} |-> k]
    ELSE LET n == Len(components)
         IN  Put(_generate_verification_checksums(SubSeq(components, 1, n - 1)),
                 components[n].name, Sha256(asdict(components[n])))

\* [registry[k] for k in build_order if k in registry]
RECURSIVE Registered(_, _)

Registered(registry, build_order) ==
    IF build_order = <<>> THEN <<>>
    ELSE LET rest == Registered(registry, Tail(build_order))
         IN  IF Head(build_order) \in DOMAIN registry
             THEN <<registry[Head(build_order)]>> \o rest
             ELSE rest

generate_build_manifest(registry, target_components) ==
    LET dependency_graph == _resolve_dependency_graph(registry, target_components)
        build_order == _topological_sort(dependency_graph)
        all_components == Registered(registry, build_order)
    IN  [manifest_id |-> Sha256([target_components |-> target_components,
                                 components |-> all_components,
                                 dependency_graph |-> dependency_graph]),
         components |-> all_components,
         dependency_graph |-> dependency_graph,
         verification_checksums |-> _generate_verification_checksums(all_components)]

\* a component that does not build
_build_component_failing(component) ==
    IF "build_outputs" \in DOMAIN component
    THEN [raised |-> FALSE,
          result |-> [success |-> FALSE, artifacts |-> component.build_outputs]]
    ELSE [raised |-> TRUE]

\* component.build_outputs raises AttributeError on anything but a record
_build_component(component) ==
    IF "build_outputs" \in DOMAIN component
    THEN [raised |-> FALSE,
          result |-> [success |-> TRUE, artifacts |-> component.build_outputs]]
    ELSE [raised |-> TRUE]

_verify_build_outputs(manifest) ==
    [all_verified |-> TRUE, failed_verifications |-> <<>>]

RECURSIVE build_components(_, _, _)

\* for component in manifest.components, from the i-th on; the build_results
\* it ends with, and how it ended
build_components(components, build_results, i) ==
    IF i > Len(components) THEN [build_results |-> build_results, ended |-> "done"]
    ELSE LET built == _build_component(components[i])
         IN  IF built.raised
             THEN [build_results |-> build_results, ended |-> "raised"]
             ELSE LET r == [build_results EXCEPT !.component_results =
                                Put(@, components[i].name, built.result)]
                  IN  IF ~built.result.success
                      THEN [build_results |-> [r EXCEPT !.build_status = "failed"],
                            ended |-> "returned"]
                      ELSE build_components(components, r, i + 1)

execute_reproducible_build(manifest) ==
    LET build_results == [manifest_id |-> manifest.manifest_id,
                          build_status |-> "in_progress",
                          component_results |-> [k \in {} |-> k],
                          verification_results |-> [k \in {} |-> k]]
        loop == build_components(manifest.components, build_results, 1)
        verification_results == _verify_build_outputs(manifest)
    IN  CASE loop.ended = "returned" -> loop.build_results
          [] loop.ended = "raised" ->
                [loop.build_results EXCEPT !.build_status = "error"]
          [] OTHER ->
                [loop.build_results EXCEPT
                    !.verification_results = verification_results,
                    !.build_status = IF verification_results.all_verified
                                     THEN "success" ELSE "verification_failed"]

\* The manifest as it is rebuilt from asdict(manifest): its components are dicts.
FromDict(manifest) ==
    [manifest EXCEPT !.components = [i \in DOMAIN @ |-> asdict(@[i])]]

define_build_component(name, version, source_specification, build_procedure) ==
    /\ LET source_hash == Sha256(source_specification)
           component_key == ComponentKey(name, version, source_hash)
       IN  /\ Cardinality(DOMAIN component_registry \cup {component_key}) <= MaxComponents
           /\ component_registry' =
                  Put(component_registry, component_key,
                      BuildComponent(name, version, source_hash, build_procedure))
           /\ last' = [op |-> "define_build_component", key |-> component_key]
    /\ UNCHANGED <<lspVars, mcpVars, generatorVars, orchestratorVars,
                   designerVars, fabricVars, transportVars>>

CallGenerateBuildManifest(target_components) ==
    /\ last' = [op |-> "generate_build_manifest",
                target_components |-> target_components,
                result |-> generate_build_manifest(component_registry, target_components)]
    /\ UNCHANGED <<lspVars, mcpVars, ecoVars>>

CallTopologicalSort(target_components) ==
    /\ \E g \in {_resolve_dependency_graph(component_registry, target_components)} :
          last' = [op |-> "_topological_sort",
                   target_components |-> target_components,
                   dependency_graph |-> g,
                   result |-> _topological_sort(g)]
    /\ UNCHANGED <<lspVars, mcpVars, ecoVars>>

\* The manifest is the one just generated, or that one rebuilt from its dict.
CallExecuteReproducibleBuild(target_components, from_dict) ==
    /\ \E m \in {generate_build_manifest(component_registry, target_components)} :
       \E manifest \in {IF from_dict THEN FromDict(m) ELSE m} :
          last' = [op |-> "execute_reproducible_build",
                   manifest |-> manifest,
                   result |-> execute_reproducible_build(manifest)]
    /\ UNCHANGED <<lspVars, mcpVars, ecoVars>>

BuildInit ==
    /\ MCPFields
    /\ LSPFields
    /\ EcoFields
    /\ pc = "serving"
    /\ last = [op |-> "__init__"]

BuildNext ==
    \/ \E nv \in NameVersions, p \in BuildProcedures :
          define_build_component(nv[1], nv[2], SourceSpecification, p)
    \/ \E t \in TargetLists : CallGenerateBuildManifest(t)
    \/ \E t \in TargetLists : CallTopologicalSort(t)
    \/ \E t \in TargetLists, d \in BOOLEAN : CallExecuteReproducibleBuild(t, d)

BuildSpec == BuildInit /\ [][BuildNext]_vars

----------------------------------------------------------------------------
(* Claims about ReproducibleAIBuilder *)

IsBuildComponent(c) == {"name", "build_inputs", "build_outputs"} \subseteq DOMAIN c

Executed == last.op = "execute_reproducible_build"

\* C12: execute_reproducible_build never returns with build_status "failed",
\* "verification_failed" or "in_progress".  For a manifest whose components
\* are all BuildComponent records the status is "success" and
\* component_results has exactly one entry per distinct component name; the
\* only other status is "error", and it is returned only when an exception
\* was raised (a component that is no BuildComponent record).
C12_BuildSucceedsOrErrs ==
    Executed =>
        LET components == last.manifest.components
            records == \A i \in DOMAIN components : IsBuildComponent(components[i])
        IN  /\ last.result.build_status \in {"success", "error"}
            /\ records =>
                  /\ last.result.build_status = "success"
                  /\ DOMAIN last.result.component_results =
                         {components[i].name : i \in DOMAIN components}
                  /\ \A n \in DOMAIN last.result.component_results :
                         last.result.component_results[n].success
            /\ last.result.build_status = "error" => ~records

\* Two components of one name were built: one entry in component_results.
C12_Witness ==
    /\ Executed
    /\ Len(last.manifest.components) = 2
    /\ \A i \in DOMAIN last.manifest.components :
           IsBuildComponent(last.manifest.components[i])
    /\ last.result.build_status = "success"
    /\ DOMAIN last.result.component_results = {"model"}

\* The nodes a node of the graph lists as its dependencies.
DepsOf(graph, n) == IF n \in DOMAIN graph.deps THEN Range(graph.deps[n]) ELSE {}

NodesOf(graph) == Range(graph.keys) \cup UNION {DepsOf(graph, n) : n \in Range(graph.keys)}

RECURSIVE Closure(_, _)

\* The nodes reached from the nodes of S along dependencies, S included.
Closure(graph, S) ==
    LET T == S \cup UNION {DepsOf(graph, n) : n \in S}
    IN  IF T = S THEN S ELSE Closure(graph, T)

Cyclic(graph) == \E n \in NodesOf(graph) : n \in Closure(graph, DepsOf(graph, n))

Pos(seq, x) == CHOOSE i \in DOMAIN seq : seq[i] = x

EachOnce(seq, S) == Range(seq) = S /\ Len(seq) = Cardinality(S)

KeyOfComponent(c) == ComponentKey(c.name, c.version, c.source_hash)

\* C13: for an acyclic dependency graph the result of _topological_sort holds
\* every node of the graph exactly once and every node comes after all of
\* its dependencies; the components of a manifest generated from an acyclic
\* graph are in dependency order: a component comes after every registered
\* component it lists as build input.
C13_DependencyOrder ==
    /\ (last.op = "_topological_sort" /\ ~Cyclic(last.dependency_graph)) =>
          /\ EachOnce(last.result, NodesOf(last.dependency_graph))
          /\ \A n \in NodesOf(last.dependency_graph) :
             \A d \in DepsOf(last.dependency_graph, n) :
                 Pos(last.result, d) < Pos(last.result, n)
    /\ (last.op = "generate_build_manifest" /\ ~Cyclic(last.result.dependency_graph)) =>
          LET components == last.result.components
          IN  \A i, j \in DOMAIN components :
                  KeyOfComponent(components[j]) \in Range(components[i].build_inputs)
                      => j < i

\* model 1.0 needs model 2.0 and data, model 2.0 needs data: data comes first.
C13_Witness ==
    /\ last.op = "_topological_sort"
    /\ ~Cyclic(last.dependency_graph)
    /\ last.target_components = <<KeyOf("model", "1.0")>>
    /\ last.result = <<KeyOf("data", "1.0"), KeyOf("model", "2.0"), KeyOf("model", "1.0")>>

\* The keys reached from the targets along the build inputs of the registry.
RECURSIVE Needed(_, _)

Needed(registry, S) ==
    LET T == S \cup UNION {Range(registry[k].build_inputs) : k \in S \cap DOMAIN registry}
    IN  IF T = S THEN S ELSE Needed(registry, T)

\* The graph is the one of the targets: every key they need, once, with the
\* build inputs of its component, or none if it names no component.
Resolved(graph, registry, target_components) ==
    /\ EachOnce(graph.keys, Needed(registry, Range(target_components)))
    /\ DOMAIN graph.deps = Range(graph.keys)
    /\ \A k \in DOMAIN graph.deps :
           graph.deps[k] = IF k \in DOMAIN registry THEN registry[k].build_inputs ELSE <<>>

\* C14: when the components of the graph list each other as build inputs in
\* a cycle, _resolve_dependency_graph and _topological_sort still return
\* (no error): the graph is the complete graph of the targets and the build
\* order holds every node of the graph exactly once.
C14_CyclesTerminate ==
    (last.op = "_topological_sort" /\ Cyclic(last.dependency_graph)) =>
        /\ Resolved(last.dependency_graph, component_registry, last.target_components)
        /\ EachOnce(last.result, NodesOf(last.dependency_graph))

\* model 1.0 and model 2.0 need each other.
C14_Witness ==
    /\ last.op = "_topological_sort"
    /\ KeyOf("model", "2.0") \in DepsOf(last.dependency_graph, KeyOf("model", "1.0"))
    /\ KeyOf("model", "1.0") \in DepsOf(last.dependency_graph, KeyOf("model", "2.0"))
    /\ Len(last.result) >= 2

\* The targets and build inputs of the generated manifest that name no
\* component of component_registry.
Unregistered ==
    (Range(last.target_components)
        \cup UNION {Range(component_registry[k].build_inputs) :
                        k \in Needed(component_registry, Range(last.target_components))
                              \cap DOMAIN component_registry})
    \ DOMAIN component_registry

\* C15: generate_build_manifest returns a manifest (no error) in which every
\* target or build input that names no registered component is a node of
\* the dependency graph with no dependencies, and is left out of the
\* components and of verification_checksums, which hold the registered
\* components of the graph only.
C15_UnregisteredIsLeftOut ==
    last.op = "generate_build_manifest" =>
        LET manifest == last.result
            components == manifest.components
        IN  /\ \A k \in Unregistered :
                  /\ k \in Range(manifest.dependency_graph.keys)
                  /\ manifest.dependency_graph.deps[k] = <<>>
                  /\ \A i \in DOMAIN components : KeyOfComponent(components[i]) # k
            /\ {KeyOfComponent(components[i]) : i \in DOMAIN components}
                   = Range(manifest.dependency_graph.keys) \cap DOMAIN component_registry
            /\ DOMAIN manifest.verification_checksums
                   = {components[i].name : i \in DOMAIN components}

\* A target and a build input name no component; one component is built.
C15_Witness ==
    /\ last.op = "generate_build_manifest"
    /\ last.target_components = <<KeyOf("model", "1.0"), External>>
    /\ KeyOf("data", "1.0") \in Unregistered
    /\ Len(last.result.dependency_graph.keys) = 3
    /\ Len(last.result.components) = 1
    /\ DOMAIN last.result.verification_checksums = {"model"}

----------------------------------------------------------------------------
(* OperationalizedRAGFabric and its NeuralTransportNetwork *)

\* The most cities cognitive_cities holds.
MaxCities == 2

Namespaces == {"github.com/a", "github.com/b", "github.com/c"}

\* The neural_transport_channels dicts of the cities: channel name -> target.
ChannelDicts ==
    {[k \in {} |-> k],
     [k \in {"x"} |-> "github.com/a"],
     [k \in {"x"} |-> "github.com/b"],
     [k \in {"x", "y"} |-> IF k = "x" THEN "github.com/a" ELSE "github.com/b"],
     [k \in {"x", "y"} |-> "github.com/a"]}

CognitiveCity(name, namespace, neural_transport_channels) ==
    [name |-> name,
     namespace |-> namespace,
     neural_transport_channels |-> neural_transport_channels]

Cities == {CognitiveCity("City", ns, d) : ns \in Namespaces, d \in ChannelDicts}

\* f"{city.namespace}::{target_namespace}"
ChannelKey(namespace, target_namespace) == <<namespace, "::", target_namespace>>

\* the floats are held as their literals
NewChannel == [bandwidth |-> "1.0", latency |-> "0.1", quality |-> "0.95"]

\* channels that replace the ones the namespace had
establish_channels_afresh(tc, city) ==
    LET keys == {ChannelKey(city.namespace, city.neural_transport_channels[n]) :
                     n \in DOMAIN city.neural_transport_channels}
        kept == {k \in DOMAIN tc : k[1] # city.namespace}
    IN  [k \in kept \cup keys |-> IF k \in keys THEN NewChannel ELSE tc[k]]

\* every pass of the loop assigns the same value, so their order is immaterial
establish_channels(tc, city) ==
    LET keys == {ChannelKey(city.namespace, city.neural_transport_channels[n]) :
                     n \in DOMAIN city.neural_transport_channels}
    IN  [k \in DOMAIN tc \cup keys |-> IF k \in keys THEN NewChannel ELSE tc[k]]

\* establish_channels awaits nothing, so the coroutine runs in one piece
register_cognitive_city(city) ==
    /\ Cardinality(DOMAIN cognitive_cities \cup {city.namespace}) <= MaxCities
    /\ cognitive_cities' = Put(cognitive_cities, city.namespace, city)
    /\ transport_channels' = establish_channels(transport_channels, city)
    /\ last' = [op |-> "register_cognitive_city", city |-> city]
    /\ UNCHANGED <<lspVars, mcpVars, generatorVars, orchestratorVars,
                   designerVars, builderVars, transportVars>>

FabricInit ==
    /\ MCPFields
    /\ LSPFields
    /\ EcoFields
    /\ pc = "serving"
    /\ last = [op |-> "__init__"]

FabricNext == \E city \in Cities : register_cognitive_city(city)

FabricSpec == FabricInit /\ [][FabricNext]_vars

----------------------------------------------------------------------------
(* Claims about OperationalizedRAGFabric *)

Targets(city) ==
    {city.neural_transport_channels[n] : n \in DOMAIN city.neural_transport_channels}

\* C16: register_cognitive_city stores the city in cognitive_cities under
\* its namespace and leaves a transport channel keyed
\* <namespace>::<target namespace> for every target of the city's
\* neural_transport_channels; the entries of all other namespaces and all
\* channels that existed before are still there.
C16_RegisterAddsCityAndChannels ==
    [][last'.op = "register_cognitive_city" =>
          LET city == last'.city
              keys == {ChannelKey(city.namespace, t) : t \in Targets(city)}
          IN  /\ DOMAIN cognitive_cities' = DOMAIN cognitive_cities \cup {city.namespace}
              /\ cognitive_cities'[city.namespace] = city
              /\ \A ns \in DOMAIN cognitive_cities \ {city.namespace} :
                     cognitive_cities'[ns] = cognitive_cities[ns]
              /\ DOMAIN transport_channels' = DOMAIN transport_channels \cup keys
              /\ \A k \in keys : transport_channels'[k] = NewChannel
              /\ \A k \in DOMAIN transport_channels \ keys :
                     transport_channels'[k] = transport_channels[k]
      ]_vars

\* A city with two targets is registered in place of one with another
\* target, whose channel is still there, next to another city.
C16_Witness ==
    /\ last.op = "register_cognitive_city"
    /\ last.city.namespace = "github.com/c"
    /\ Targets(last.city) = {"github.com/a"}
    /\ DOMAIN last.city.neural_transport_channels = {"x", "y"}
    /\ DOMAIN cognitive_cities = {"github.com/a", "github.com/c"}
    /\ DOMAIN transport_channels =
           {ChannelKey("github.com/c", "github.com/a"),
            ChannelKey("github.com/c", "github.com/b"),
            ChannelKey("github.com/a", "github.com/b")}

----------------------------------------------------------------------------
(* InterOrgNeuralTransport *)

\* The latest time of datetime.now().
MaxTime == 2

\* The most distinct contents transmitted.
MaxContents == 2

Times == 1..MaxTime

Orgs == {"cogpilot", "cogcities"}

\* The ordered pairs of two organizations.
OrgPairs == {p \in Orgs \X Orgs : p[1] # p[2]}

\* The channel types asked for: the four known ones and another one.
ChannelTypes == {"standard", "high-bandwidth", "low-latency", "ultra-low-latency", "quantum"}

\* The content types asked for: the four known ones and another one.
ContentTypes == {"issue", "pr", "discussion", "code", "wiki"}

ContentList ==
    <<[title |-> "t1"],
      [title |-> "t2", repository |-> "r", user |-> "u"],
      [organization |-> "o"]>>

\* The contents transmitted: dicts, and a list in place of a dict.
ContextContents == {ContentList[i] : i \in 1..MaxContents} \cup {NonDict}

\* f"{source_org}->{target_org}"
ChannelId(source_org, target_org) == <<source_org, "->", target_org>>

\* specs.get(channel_type, specs["standard"]); the floats as their literals
_calculate_channel_specs(channel_type) ==
    CASE channel_type = "standard" -> <<1000, "50.0">>
      [] channel_type = "high-bandwidth" -> <<10000, "100.0">>
      [] channel_type = "low-latency" -> <<500, "10.0">>
      [] channel_type = "ultra-low-latency" -> <<200, "5.0">>
      [] OTHER -> <<1000, "50.0">>

\* a channel set up again on every call
establish_channel_anew(chs, source_org, target_org, channel_type, now) ==
    LET specs == _calculate_channel_specs(channel_type)
        channel == [source_org |-> source_org,
                    target_org |-> target_org,
                    channel_type |-> channel_type,
                    bandwidth |-> specs[1],
                    latency |-> specs[2],
                    established_at |-> now,
                    context_preservation |-> TRUE,
                    transport_protocol |-> "github-api"]
    IN  [channels |-> Put(chs, ChannelId(source_org, target_org), channel),
         result |-> channel]

\* now is what datetime.now() returns during the call
establish_channel(chs, source_org, target_org, channel_type, now) ==
    LET channel_id == ChannelId(source_org, target_org)
        specs == _calculate_channel_specs(channel_type)
        channel == [source_org |-> source_org,
                    target_org |-> target_org,
                    channel_type |-> channel_type,
                    bandwidth |-> specs[1],
                    latency |-> specs[2],
                    established_at |-> now,
                    context_preservation |-> TRUE,
                    transport_protocol |-> "github-api"]
    IN  IF channel_id \in DOMAIN chs
        THEN [channels |-> chs, result |-> chs[channel_id]]
        ELSE [channels |-> Put(chs, channel_id, channel), result |-> channel]

\* hashlib.sha256(json.dumps(content, sort_keys=True)).hexdigest()[:16]
_generate_context_hash(content) == [prefix16 |-> Sha256(content)]

_extract_dependencies(content) ==
    (IF "repository" \in DOMAIN content THEN <<<<"repo:", content.repository>>>> ELSE <<>>)
    \o (IF "user" \in DOMAIN content THEN <<<<"user:", content.user>>>> ELSE <<>>)
    \o (IF "organization" \in DOMAIN content
        THEN <<<<"org:", content.organization>>>> ELSE <<>>)

\* packet.content.get(...) raises on a content that is no dict; otherwise True
_transmit_issue(packet) == [raised |-> ~IsDict(packet.content), result |-> TRUE]

_transmit_pull_request(packet) == [raised |-> ~IsDict(packet.content), result |-> TRUE]

_transmit_discussion(packet) == [raised |-> ~IsDict(packet.content), result |-> TRUE]

_transmit_code(packet) == [raised |-> ~IsDict(packet.content), result |-> TRUE]

\* a transport that takes every content type
_transmit_by_type_any(packet) ==
    LET sent_ == _transmit_issue(packet)
    IN  IF sent_.raised THEN FALSE ELSE sent_.result

\* except Exception: return False
_transmit_by_type(packet) ==
    LET sent_ == CASE packet.content_type = "issue" -> _transmit_issue(packet)
                   [] packet.content_type = "pr" -> _transmit_pull_request(packet)
                   [] packet.content_type = "discussion" -> _transmit_discussion(packet)
                   [] packet.content_type = "code" -> _transmit_code(packet)
                   [] OTHER -> [raised |-> FALSE, result |-> FALSE]
    IN  IF sent_.raised THEN FALSE ELSE sent_.result

transmit_context(chs, cache, source_org, target_org, content, content_type, priority, now) ==
    IF ChannelId(source_org, target_org) \notin DOMAIN chs
    THEN [context_cache |-> cache, result |-> None]
    ELSE LET packet == [source_org |-> source_org,
                        target_org |-> target_org,
                        content_type |-> content_type,
                        content |-> content,
                        timestamp |-> now,
                        priority |-> priority,
                        context_hash |-> _generate_context_hash(content),
                        dependencies |-> _extract_dependencies(content)]
         IN  IF _transmit_by_type(packet)
             THEN [context_cache |-> Put(cache, packet.context_hash, packet),
                   result |-> packet]
             ELSE [context_cache |-> cache, result |-> None]

\* a channel raised to the next type, if there is one
optimize_channel_once(chs, source_org, target_org) ==
    LET channel_id == ChannelId(source_org, target_org)
    IN  IF channel_id \notin DOMAIN chs THEN [channels |-> chs, result |-> FALSE]
        ELSE IF chs[channel_id].channel_type = "standard"
             THEN [channels |-> [chs EXCEPT ![channel_id] =
                       [@ EXCEPT !.channel_type = "high-bandwidth",
                                 !.bandwidth = _calculate_channel_specs("high-bandwidth")[1],
                                 !.latency = _calculate_channel_specs("high-bandwidth")[2]]],
                   result |-> TRUE]
             ELSE [channels |-> chs, result |-> TRUE]

optimize_channel(chs, source_org, target_org) ==
    LET channel_id == ChannelId(source_org, target_org)
    IN  IF channel_id \notin DOMAIN chs THEN [channels |-> chs, result |-> FALSE]
        ELSE CASE chs[channel_id].channel_type = "standard" ->
                    [channels |-> [chs EXCEPT ![channel_id] =
                        [@ EXCEPT !.channel_type = "high-bandwidth",
                                  !.bandwidth = _calculate_channel_specs("high-bandwidth")[1],
                                  !.latency = _calculate_channel_specs("high-bandwidth")[2]]],
                     result |-> TRUE]
               [] chs[channel_id].channel_type = "high-bandwidth" ->
                    [channels |-> [chs EXCEPT ![channel_id] =
                        [@ EXCEPT !.channel_type = "low-latency",
                                  !.bandwidth = _calculate_channel_specs("low-latency")[1],
                                  !.latency = _calculate_channel_specs("low-latency")[2]]],
                     result |-> TRUE]
               [] OTHER -> [channels |-> chs, result |-> TRUE]

\* a cleanup of the packets of both directions
_cleanup_context_cache_both_ways(cache, source_org, target_org) ==
    LET keys_to_remove == {key \in DOMAIN cache :
                               {cache[key].source_org, cache[key].target_org}
                                   = {source_org, target_org}}
    IN  [key \in DOMAIN cache \ keys_to_remove |-> cache[key]]

_cleanup_context_cache(cache, source_org, target_org) ==
    LET keys_to_remove == {key \in DOMAIN cache :
                               /\ cache[key].source_org = source_org
                               /\ cache[key].target_org = target_org}
    IN  [key \in DOMAIN cache \ keys_to_remove |-> cache[key]]

close_channel(chs, cache, source_org, target_org) ==
    LET channel_id == ChannelId(source_org, target_org)
    IN  IF channel_id \notin DOMAIN chs
        THEN [channels |-> chs, context_cache |-> cache, result |-> FALSE]
        ELSE [channels |-> Del(chs, channel_id),
              context_cache |-> _cleanup_context_cache(cache, source_org, target_org),
              result |-> TRUE]

EstablishChannel(source_org, target_org, channel_type, now) ==
    /\ \E r \in {establish_channel(channels, source_org, target_org, channel_type, now)} :
          /\ channels' = r.channels
          /\ last' = [op |-> "establish_channel", source_org |-> source_org,
                      target_org |-> target_org, channel_type |-> channel_type,
                      now |-> now, result |-> r.result]
    /\ UNCHANGED <<context_cache, lspVars, mcpVars, generatorVars, orchestratorVars,
                   designerVars, builderVars, fabricVars>>

TransmitContext(source_org, target_org, content, content_type, now) ==
    /\ \E r \in {transmit_context(channels, context_cache, source_org, target_org,
                                  content, content_type, 1, now)} :
          /\ context_cache' = r.context_cache
          /\ last' = [op |-> "transmit_context", source_org |-> source_org,
                      target_org |-> target_org, content |-> content,
                      content_type |-> content_type, result |-> r.result]
    /\ UNCHANGED <<channels, lspVars, mcpVars, generatorVars, orchestratorVars,
                   designerVars, builderVars, fabricVars>>

OptimizeChannel(source_org, target_org) ==
    /\ \E r \in {optimize_channel(channels, source_org, target_org)} :
          /\ channels' = r.channels
          /\ last' = [op |-> "optimize_channel", source_org |-> source_org,
                      target_org |-> target_org, result |-> r.result]
    /\ UNCHANGED <<context_cache, lspVars, mcpVars, generatorVars, orchestratorVars,
                   designerVars, builderVars, fabricVars>>

CloseChannel(source_org, target_org) ==
    /\ \E r \in {close_channel(channels, context_cache, source_org, target_org)} :
          /\ channels' = r.channels
          /\ context_cache' = r.context_cache
          /\ last' = [op |-> "close_channel", source_org |-> source_org,
                      target_org |-> target_org, result |-> r.result]
    /\ UNCHANGED <<lspVars, mcpVars, generatorVars, orchestratorVars,
                   designerVars, builderVars, fabricVars>>

TransportInit ==
    /\ MCPFields
    /\ LSPFields
    /\ EcoFields
    /\ pc = "serving"
    /\ last = [op |-> "__init__"]

\* Channels of the default type carry contexts and are closed.
TransportNext ==
    \/ \E p \in OrgPairs : EstablishChannel(p[1], p[2], "standard", 1)
    \/ \E p \in OrgPairs, c \in ContextContents, t \in ContentTypes :
          TransmitContext(p[1], p[2], c, t, 1)
    \/ \E p \in OrgPairs : CloseChannel(p[1], p[2])

TransportSpec == TransportInit /\ [][TransportNext]_vars

\* Channels of all types are established, optimized and closed.
ChannelNext ==
    \/ \E p \in OrgPairs, t \in ChannelTypes, now \in Times :
          EstablishChannel(p[1], p[2], t, now)
    \/ \E p \in OrgPairs : OptimizeChannel(p[1], p[2])
    \/ \E p \in OrgPairs : CloseChannel(p[1], p[2])

ChannelSpec == TransportInit /\ [][ChannelNext]_vars

----------------------------------------------------------------------------
(* Claims about InterOrgNeuralTransport *)

KnownContentTypes == {"issue", "pr", "discussion", "code"}

\* C17: transmit_context returns None and leaves context_cache as it was
\* unless the channel source_org->target_org is established and the content
\* type is issue, pr, discussion or code (the channel of the opposite
\* direction does not count); when it returns a packet, the packet is
\* the one of the call and context_cache holds it under its context_hash,
\* everything else in the cache being as before.  A dict content over an
\* established channel with a known content type is transmitted.
C17_TransmitNeedsChannelAndType ==
    [][last'.op = "transmit_context" =>
          LET call == last'
              enabled == /\ ChannelId(call.source_org, call.target_org) \in DOMAIN channels
                         /\ call.content_type \in KnownContentTypes
          IN  /\ ~enabled => (call.result = None /\ context_cache' = context_cache)
              /\ (enabled /\ IsDict(call.content)) => call.result # None
              /\ call.result = None => context_cache' = context_cache
              /\ call.result # None =>
                    /\ call.result.source_org = call.source_org
                    /\ call.result.target_org = call.target_org
                    /\ call.result.content_type = call.content_type
                    /\ call.result.content = call.content
                    /\ DOMAIN context_cache' =
                           DOMAIN context_cache \cup {call.result.context_hash}
                    /\ context_cache'[call.result.context_hash] = call.result
                    /\ \A k \in DOMAIN context_cache \ {call.result.context_hash} :
                           context_cache'[k] = context_cache[k]
              /\ channels' = channels
      ]_vars

\* An issue is not transmitted against the direction of the only channel.
C17_Witness ==
    /\ last.op = "transmit_context"
    /\ last.content_type = "issue"
    /\ IsDict(last.content)
    /\ last.result = None
    /\ DOMAIN channels = {ChannelId(last.target_org, last.source_org)}
    /\ DOMAIN context_cache # {}

\* C18: close_channel returns False and changes nothing when there is no
\* channel source_org->target_org.  Otherwise it returns True, the channel
\* is gone and so is every cached packet with that source and target; all
\* other channels and all other cached packets are as before.
C18_CloseRemovesChannelAndItsPackets ==
    [][last'.op = "close_channel" =>
          LET call == last'
              channel_id == ChannelId(call.source_org, call.target_org)
              gone == {k \in DOMAIN context_cache :
                           /\ context_cache[k].source_org = call.source_org
                           /\ context_cache[k].target_org = call.target_org}
          IN  IF channel_id \notin DOMAIN channels
              THEN /\ call.result = FALSE
                   /\ channels' = channels
                   /\ context_cache' = context_cache
              ELSE /\ call.result = TRUE
                   /\ DOMAIN channels' = DOMAIN channels \ {channel_id}
                   /\ \A c \in DOMAIN channels' : channels'[c] = channels[c]
                   /\ DOMAIN context_cache' = DOMAIN context_cache \ gone
                   /\ \A k \in DOMAIN context_cache' : context_cache'[k] = context_cache[k]
      ]_vars

\* A channel was closed; the other channel and a packet sent over it remain.
C18_Witness ==
    /\ last.op = "close_channel"
    /\ last.result = TRUE
    /\ DOMAIN channels = {ChannelId(last.target_org, last.source_org)}
    /\ \E k \in DOMAIN context_cache : context_cache[k].source_org = last.target_org

\* Bandwidth and latency of the channel types; the standard ones otherwise.
SpecsOfType(channel_type) ==
    IF channel_type = "high-bandwidth" THEN <<10000, "100.0">>
    ELSE IF channel_type = "low-latency" THEN <<500, "10.0">>
    ELSE IF channel_type = "ultra-low-latency" THEN <<200, "5.0">>
    ELSE <<1000, "50.0">>

\* C19: establish_channel on a pair that has a channel returns that channel
\* and changes nothing (type, bandwidth, latency and established_at stay),
\* whatever type is asked for; on a pair without a channel it creates the
\* channel of the requested type with the bandwidth and latency of that
\* type, the standard ones for an unknown type, and returns it.
C19_EstablishIsIdempotent ==
    [][last'.op = "establish_channel" =>
          LET call == last'
              channel_id == ChannelId(call.source_org, call.target_org)
          IN  IF channel_id \in DOMAIN channels
              THEN /\ channels' = channels
                   /\ call.result = channels[channel_id]
              ELSE /\ DOMAIN channels' = DOMAIN channels \cup {channel_id}
                   /\ \A c \in DOMAIN channels : channels'[c] = channels[c]
                   /\ channels'[channel_id] = call.result
                   /\ call.result.source_org = call.source_org
                   /\ call.result.target_org = call.target_org
                   /\ call.result.channel_type = call.channel_type
                   /\ <<call.result.bandwidth, call.result.latency>>
                          = SpecsOfType(call.channel_type)
                   /\ call.result.established_at = call.now
      ]_vars

\* A high-bandwidth channel is asked for at time 2 where a channel of an
\* unknown type stands since time 1: that one is returned.
C19_Witness ==
    /\ last.op = "establish_channel"
    /\ last.channel_type = "high-bandwidth"
    /\ last.now = 2
    /\ last.result.channel_type = "quantum"
    /\ last.result.bandwidth = 1000
    /\ last.result.established_at = 1
    /\ channels[ChannelId(last.source_org, last.target_org)] = last.result

\* C20: optimize_channel returns False and changes nothing for a pair
\* without a channel.  For a channel it returns True; a standard channel
\* becomes high-bandwidth and a high-bandwidth one low-latency, with the
\* bandwidth and latency of the new type, and a channel of any other type
\* stays as it is; nothing else changes.  After this call and one more, a
\* further call changes nothing.
C20_OptimizeClimbsTwice ==
    [][last'.op = "optimize_channel" =>
          LET call == last'
              channel_id == ChannelId(call.source_org, call.target_org)
              type == channels[channel_id].channel_type
              next == IF type = "standard" THEN "high-bandwidth"
                      ELSE IF type = "high-bandwidth" THEN "low-latency"
                      ELSE type
              twice == optimize_channel(channels', call.source_org, call.target_org).channels
          IN  IF channel_id \notin DOMAIN channels
              THEN call.result = FALSE /\ channels' = channels
              ELSE /\ call.result = TRUE
                   /\ DOMAIN channels' = DOMAIN channels
                   /\ \A c \in DOMAIN channels \ {channel_id} : channels'[c] = channels[c]
                   /\ next = type => channels'[channel_id] = channels[channel_id]
                   /\ next # type =>
                         channels'[channel_id] =
                             [channels[channel_id] EXCEPT
                                 !.channel_type = next,
                                 !.bandwidth = SpecsOfType(next)[1],
                                 !.latency = SpecsOfType(next)[2]]
                   /\ optimize_channel(twice, call.source_org, call.target_org).channels
                          = twice
                   /\ context_cache' = context_cache
      ]_vars

\* A standard channel has been raised to high-bandwidth.
C20_Witness ==
    /\ last.op = "optimize_channel"
    /\ last.result = TRUE
    /\ LET channel == channels[ChannelId(last.source_org, last.target_org)]
       IN  /\ channel.channel_type = "high-bandwidth"
           /\ channel.bandwidth = 10000
           /\ channel.latency = "100.0"

----------------------------------------------------------------------------
(* ReproducibleAIBuilder.create_ai_system_blueprint *)

\* self.define_build_component(...): the registry with the component entered
Defined(registry, name, version, source_specification, build_procedure) ==
    LET source_hash == Sha256(source_specification)
        component == BuildComponent(name, version, source_hash, build_procedure)
    IN  [registry |-> Put(registry, ComponentKey(name, version, source_hash), component),
         component |-> component]

create_ml_model_component(registry, model_name, model_config) ==
    Defined(registry, model_name, Get(model_config, "version", "1.0.0"),
            [model_architecture |-> model_config.architecture,
             training_data |-> model_config.training_data,
             hyperparameters |-> model_config.hyperparameters,
             random_seeds |-> Get(model_config, "random_seeds", <<42, 1337, 2023>>)],
            [build_system |-> "pytorch_trainer",
             inputs |-> << <<"python-pytorch">>, <<"python-transformers">>,
                           <<"training-datasets">> >>,
             outputs |-> << <<model_name, ".pth">>, <<model_name, "_config.json">>,
                            <<model_name, "_metrics.json">> >>])

create_protocol_component(registry, protocol_name, protocol_spec) ==
    Defined(registry, protocol_name, Get(protocol_spec, "version", "1.0.0"),
            [protocol_definition |-> protocol_spec.definition,
             interface_specification |-> protocol_spec.interfaces,
             implementation_language |-> Get(protocol_spec, "language", "python"),
             dependencies |-> Get(protocol_spec, "dependencies", <<>>)],
            [build_system |-> "protocol_compiler",
             inputs |-> << <<"protocol-compiler">>, <<"code-generator">>,
                           <<"validation-tools">> >>,
             outputs |-> << <<protocol_name, "_implementation.py">>,
                            <<protocol_name, "_client.py">>,
                            <<protocol_name, "_server.py">>,
                            <<protocol_name, "_tests.py">> >>])

create_cognitive_architecture_component(registry, architecture_name, architecture_spec) ==
    Defined(registry, architecture_name, Get(architecture_spec, "version", "1.0.0"),
            [cognitive_modules |-> architecture_spec.modules,
             neural_topology |-> architecture_spec.topology,
             knowledge_bases |-> Get(architecture_spec, "knowledge_bases", <<>>),
             reasoning_engines |-> Get(architecture_spec, "reasoning_engines", <<>>)],
            [build_system |-> "cognitive_assembler",
             inputs |-> << <<"cognitive-framework">>, <<"neural-network-components">>,
                           <<"knowledge-processing-tools">>, <<"reasoning-engines">> >>,
             outputs |-> << <<architecture_name, "_cognitive_system">>,
                            <<architecture_name, "_knowledge_base">>,
                            <<architecture_name, "_reasoning_engine">>,
                            <<architecture_name, "_benchmarks">> >>])

RECURSIVE create_components(_, _, _, _)

\* The three loops over the models, protocols and architectures of the
\* specification, as one list of <<kind, spec>>, from the i-th on.  st holds
\* the registry and blueprint["components"] with the order of its keys.
create_components(st, specs, i, n) ==
    IF i > n THEN st
    ELSE LET kind == specs[i][1]
             spec == specs[i][2]
             made == CASE kind = "model_" ->
                            create_ml_model_component(st.registry, spec.name, spec)
                       [] kind = "protocol_" ->
                            create_protocol_component(st.registry, spec.name, spec)
                       [] OTHER ->
                            create_cognitive_architecture_component(st.registry, spec.name, spec)
             key == <<kind, spec.name>>
         IN  create_components(
                 [registry |-> made.registry,
                  keys |-> IF \E j \in DOMAIN st.keys : st.keys[j] = key
                           THEN st.keys ELSE Append(st.keys, key),
                  items |-> Put(st.items, key, asdict(made.component))],
                 specs, i + 1, n)

\* The result and the registry it leaves.  asdict(manifest) turns the
\* components of the manifest into dicts too.
create_ai_system_blueprint(registry, system_name, system_specification) ==
    LET specs == [i \in DOMAIN system_specification.models |->
                      <<"model_", system_specification.models[i]>>]
                 \o [i \in DOMAIN system_specification.protocols |->
                      <<"protocol_", system_specification.protocols[i]>>]
                 \o [i \in DOMAIN system_specification.architectures |->
                      <<"architecture_", system_specification.architectures[i]>>]
        st == create_components([registry |-> registry, keys |-> <<>>,
                                 items |-> [k \in {} |-> k]],
                                specs, 1, Len(specs))
        scenarios == system_specification.deployment_scenarios
    IN  [registry |-> st.registry,
         result |->
            [system_name |-> system_name,
             system_version |-> Get(system_specification, "version", "1.0.0"),
             components |-> [keys |-> st.keys, items |-> st.items],
             build_manifests |->
                [name \in DOMAIN scenarios |->
                    FromDict(generate_build_manifest(
                        st.registry, Get(scenarios[name], "components", st.keys)))]]]

ModelSpecs ==
    {[name |-> "language_model", architecture |-> "transformer",
      training_data |-> "text_corpus", hyperparameters |-> [layers |-> 12]],
     [name |-> "vision_model", version |-> "2.0.0", architecture |-> "vision_transformer",
      training_data |-> "image_text_pairs", hyperparameters |-> [patch_size |-> 16]]}

ProtocolSpecs ==
    {[name |-> "collaboration_protocol", definition |-> "mcp_extension",
      interfaces |-> <<"neural_transport">>]}

ArchitectureSpecs ==
    {[name |-> "cognitive_architecture", modules |-> <<"reasoning", "memory">>,
      topology |-> "hierarchical"]}

\* The lists of one or no element of S, and of two different ones.
ListsOf(S) ==
    {<<>>} \cup {<<x>> : x \in S} \cup {<<p[1], p[2]>> : p \in {q \in S \X S : q[1] # q[2]}}

\* deployment_scenarios: without a component list, and with lists of the
\* keys blueprint["components"] gets.
ScenarioDicts ==
    {[name \in {} |-> name],
     [name \in {"development"} |-> [target_name |-> "dev_system"]],
     [name \in {"development"} |->
         [target_name |-> "dev_system",
          components |-> << <<"model_", "language_model">> >>]],
     [name \in {"development", "production"} |->
         IF name = "development"
         THEN [target_name |-> "dev_system",
               components |-> << <<"model_", "language_model">>,
                                 <<"protocol_", "collaboration_protocol">> >>]
         ELSE [target_name |-> "prod_system"]]}

SystemSpecifications ==
    {[models |-> m, protocols |-> p, architectures |-> a, deployment_scenarios |-> d] :
        m \in ListsOf(ModelSpecs), p \in ListsOf(ProtocolSpecs),
        a \in ListsOf(ArchitectureSpecs), d \in ScenarioDicts}

CallCreateAiSystemBlueprint(system_specification) ==
    /\ \E r \in {create_ai_system_blueprint(component_registry, "CognitiveAI_System",
                                            system_specification)} :
          /\ component_registry' = r.registry
          /\ last' = [op |-> "create_ai_system_blueprint",
                      system_specification |-> system_specification,
                      result |-> r.result]
    /\ UNCHANGED <<lspVars, mcpVars, generatorVars, orchestratorVars,
                   designerVars, fabricVars, transportVars>>

BlueprintNext == \E spec \in SystemSpecifications : CallCreateAiSystemBlueprint(spec)

BlueprintSpec == BuildInit /\ [][BlueprintNext]_vars

----------------------------------------------------------------------------
(* Claims about create_ai_system_blueprint *)

\* The components of the blueprint that a scenario names: those of its
\* component list, all of them when it gives no list.
NamedBy(blueprint, scenario_config) ==
    LET named == IF "components" \in DOMAIN scenario_config
                 THEN Range(scenario_config.components)
                 ELSE Range(blueprint.components.keys)
    IN  {blueprint.components.items[k] : k \in named \cap DOMAIN blueprint.components.items}

\* C21: for every deployment scenario given to create_ai_system_blueprint
\* the components of the generated manifest are the build components that
\* the scenario's component list names, all components of the blueprint
\* when the scenario gives no list.
C21_ManifestHoldsNamedComponents ==
    last.op = "create_ai_system_blueprint" =>
        \A name \in DOMAIN last.system_specification.deployment_scenarios :
            Range(last.result.build_manifests[name].components)
                = NamedBy(last.result, last.system_specification.deployment_scenarios[name])

----------------------------------------------------------------------------
(* MCPServer: the transport_ids of the neural_transport responses *)

\* C26: every neural_transport response the server sends carries a
\* transport_id that none of its earlier neural_transport responses carried.
C26_TransportIdsAreFresh ==
    [][TransportIds(sent') \cap transport_ids = {}]_vars

----------------------------------------------------------------------------
(* LSPServer: the providers of the capabilities and their requests *)

\* The request method that the Language Server Protocol attaches to each
\* provider named in the capabilities.
ProviderOf ==
    [method \in {"textDocument/hover", "textDocument/completion",
                 "textDocument/signatureHelp", "textDocument/definition",
                 "textDocument/references", "textDocument/documentHighlight",
                 "textDocument/documentSymbol", "workspace/symbol",
                 "textDocument/codeAction", "textDocument/formatting",
                 "textDocument/rename"} |->
        CASE method = "textDocument/hover" -> "hoverProvider"
          [] method = "textDocument/completion" -> "completionProvider"
          [] method = "textDocument/signatureHelp" -> "signatureHelpProvider"
          [] method = "textDocument/definition" -> "definitionProvider"
          [] method = "textDocument/references" -> "referencesProvider"
          [] method = "textDocument/documentHighlight" -> "documentHighlightProvider"
          [] method = "textDocument/documentSymbol" -> "documentSymbolProvider"
          [] method = "workspace/symbol" -> "workspaceSymbolProvider"
          [] method = "textDocument/codeAction" -> "codeActionProvider"
          [] method = "textDocument/formatting" -> "documentFormattingProvider"
          [] method = "textDocument/rename" -> "renameProvider"]

\* The capabilities of the initialize response.  Every provider entry of
\* _get_capabilities is True or a dict of options, never False.
AdvertisedCapabilities ==
    _handle_initialize(EmptyDict, EmptyDict, <<>>).result.capabilities

Advertised(method) ==
    /\ method \in DOMAIN ProviderOf
    /\ ProviderOf[method] \in DOMAIN AdvertisedCapabilities

\* One well-formed request with an id for each provider's method.
ProviderRequests ==
    {Obj([method |-> m, id |-> "9",
          params |-> [textDocument |-> [uri |-> "file:///a"],
                      position |-> [line |-> 0, character |-> 3]]]) :
        m \in DOMAIN ProviderOf \ {"workspace/symbol"}}
    \cup {Obj([method |-> "workspace/symbol", id |-> "9",
               params |-> [query |-> "City"]])}

InitializeRequests ==
    {Obj([method |-> "initialize", id |-> "1",
          params |-> [workspaceFolders |-> <<"file:///workspace">>]]),
     Obj([method |-> "initialize", id |-> "1", params |-> EmptyDict])}

\* A client initializes, opens documents and uses the advertised providers.
LSPProviderNext ==
    \/ \E m \in InitializeRequests \cup DidOpenMessages : Serve(m)
    \/ \E m \in ProviderRequests : Serve(m)

LSPProviderSpec == LSPInit /\ [][LSPProviderNext]_vars

\* C27: a request that carries an id, for the method of a provider that the
\* capabilities of the initialize response advertise, is answered with a
\* response that carries that id.
C27_AdvertisedRequestsAreAnswered ==
    (/\ last.op = "_process_message"
     /\ last.message.json = "object"
     /\ "id" \in DOMAIN last.message.data
     /\ Advertised(Get(last.message.data, "method", "")))
        => \E i \in DOMAIN stdout : stdout[i].id = last.message.data.id

----------------------------------------------------------------------------
(* BlueprintGenerator (src/blueprints/guix_builder.py) *)

MaxBlueprints == 2    \* blueprints appended to build_history in one behaviour

\* PackageSpec; build_args, patches, environment and checksum keep their
\* defaults but for the index_url of pytorch, a constant.
PackageSpec(name, version, source, build_system, dependencies) ==
    [name |-> name, version |-> version, source |-> source,
     build_system |-> build_system, dependencies |-> dependencies]

\* The enterprise configs of the calls.  None of them has environment_vars or
\* enterprise_ml_packages.
EnterpriseConfigs ==
    {EmptyDict,
     [pytorch_version |-> "2.2.0", base_system |-> "ubuntu:24.04",
      orchestration |-> "nomad"]}

WorkbenchTypes ==
    {"ml_research", "nn_development", "protocol_design", "hybrid_workbench",
     "quantum_lab"}

_create_ml_research_environment(config) ==
    [name |-> "ml_research_environment",
     description |-> "Optimized environment for ML research and experimentation",
     base_system |-> Get(config, "base_system", "python:3.11-slim"),
     packages |->
        <<PackageSpec("pytorch", Get(config, "pytorch_version", "2.1.0"),
                      "https://download.pytorch.org/whl/cpu", "python",
                      <<"numpy", "pillow">>),
          PackageSpec("transformers", Get(config, "transformers_version", "4.35.0"),
                      "https://github.com/huggingface/transformers", "python",
                      <<"torch", "tokenizers", "safetensors">>),
          PackageSpec("datasets", Get(config, "datasets_version", "2.14.0"),
                      "https://github.com/huggingface/datasets", "python",
                      <<"pandas", "pyarrow", "fsspec">>),
          PackageSpec("jupyter", "1.0.0", "https://github.com/jupyter/jupyter",
                      "python", <<"notebook", "ipykernel", "ipywidgets">>)>>,
     environment_vars |->
        <<<<"PYTORCH_CUDA_ALLOC_CONF", "max_split_size_mb:512">>,
          <<"TRANSFORMERS_CACHE", "/workspace/cache/transformers">>,
          <<"HF_DATASETS_CACHE", "/workspace/cache/datasets">>>>,
     services |-> <<>>,
     ai_specific |->
        [gpu_support |-> Get(config, "gpu_support", FALSE),
         distributed_training |-> Get(config, "distributed_training", FALSE),
         model_parallelism |-> Get(config, "model_parallelism", FALSE),
         memory_optimization |-> Get(config, "memory_optimization", TRUE)]]

_create_protocol_design_environment(config) ==
    [name |-> "protocol_design_environment",
     description |-> "Environment for MCP/LSP protocol design and implementation",
     base_system |-> Get(config, "base_system", "node:20-slim"),
     packages |->
        <<PackageSpec("nodejs", Get(config, "node_version", "20.0.0"),
                      "https://nodejs.org/dist/", "make", <<>>),
          PackageSpec("typescript", "5.3.0", "https://registry.npmjs.org/typescript",
                      "nodejs", <<"nodejs">>),
          PackageSpec("mcp-sdk", Get(config, "mcp_version", "1.0.0"),
                      "https://github.com/microsoft/mcp-sdk", "nodejs",
                      <<"typescript", "websockets">>),
          PackageSpec("vscode-languageserver", "9.0.1",
                      "https://github.com/microsoft/vscode-languageserver-node",
                      "nodejs", <<"typescript">>),
          PackageSpec("antlr4", "4.13.1", "https://github.com/antlr/antlr4", "java",
                      <<"openjdk-11">>)>>,
     environment_vars |->
        <<<<"NODE_ENV", "development">>, <<"MCP_SERVER_PORT", "8765">>,
          <<"LSP_SERVER_PORT", "8766">>>>,
     services |->
        <<[name |-> "mcp_server", ports |-> <<<<"8765", "8765">>>>],
          [name |-> "lsp_server", ports |-> <<<<"8766", "8766">>>>]>>,
     ai_specific |->
        [protocol_introspection |-> TRUE,
         real_time_optimization |-> TRUE,
         natural_language_interface |-> TRUE,
         enterprise_integration |-> Get(config, "enterprise_integration", TRUE)]]

\* The two environments merged; their variables and ai_specific keys are
\* disjoint, so {**ml, **protocol} keeps all of both, in this order.
_create_hybrid_workbench_environment(config) ==
    LET ml_env == _create_ml_research_environment(config)
        protocol_env == _create_protocol_design_environment(config)
    IN [name |-> "hybrid_workbench_environment",
        description |-> "Complete AI workbench with ML and protocol capabilities",
        base_system |-> Get(config, "base_system", "ubuntu:24.04"),
        packages |-> ml_env.packages \o protocol_env.packages,
        environment_vars |-> ml_env.environment_vars \o protocol_env.environment_vars,
        services |-> protocol_env.services,
        ai_specific |-> protocol_env.ai_specific @@ ml_env.ai_specific]

\* the lines for the packages, in order
RECURSIVE install_instructions(_)
install_instructions(packages) ==
    IF packages = <<>> THEN <<>>
    ELSE LET package == Head(packages)
             lines ==
                 IF package.build_system = "python"
                 THEN <<<<"# Install ", package.name, " v", package.version>>,
                        <<"RUN pip install ", package.name, "==", package.version>>,
                        <<"">>>>
                 ELSE IF package.build_system = "nodejs"
                 THEN <<<<"# Install ", package.name, " v", package.version>>,
                        <<"RUN npm install -g ", package.name, "@", package.version>>,
                        <<"">>>>
                 ELSE <<>>
         IN lines \o install_instructions(Tail(packages))

\* Each instruction is the tuple of the parts of its f-string.
_generate_build_instructions(env_spec) ==
    <<<<"# Build instructions for ", env_spec.name>>,
      <<"FROM ", env_spec.base_system>>,
      <<"">>,
      <<"# Set up base system">>,
      <<"RUN apt-get update && apt-get install -y curl wget git build-essential">>,
      <<"">>>>
    \o install_instructions(env_spec.packages)
    \o (IF env_spec.environment_vars # <<>>
        THEN <<<<"# Set environment variables">>>>
             \o [i \in DOMAIN env_spec.environment_vars |->
                    <<"ENV ", env_spec.environment_vars[i][1], "=",
                      env_spec.environment_vars[i][2]>>]
             \o <<<<"">>>>
        ELSE <<>>)
    \o (IF env_spec.services # <<>>
        THEN <<<<"# Set up services">>>>
             \o [i \in 1..(2 * Len(env_spec.services)) |->
                    LET service == env_spec.services[(i + 1) \div 2] IN
                    IF i % 2 = 1 THEN <<"# Service: ", service.name>>
                    ELSE <<"EXPOSE ", service.ports[1][2]>>]
             \o <<<<"">>>>
        ELSE <<>>)

_generate_test_suite(workbench_type) ==
    <<"# Basic environment tests", "python --version", "pip list",
      "python -c 'import sys; print(sys.path)'">>
    \o (IF workbench_type \in {"ml_research", "hybrid_workbench"}
        THEN <<"# ML framework tests",
               "python -c 'import torch; print(f\"PyTorch: {torch.__version__}\")'",
               "python -c 'import transformers; print(f\"Transformers: {transformers.__version__}\")'",
               "python -c 'import torch; x = torch.randn(10, 10); print(f\"Tensor ops work: {x.sum()}\")'">>
        ELSE <<>>)
    \o (IF workbench_type \in {"protocol_design", "hybrid_workbench"}
        THEN <<"# Protocol framework tests", "node --version",
               "npm list -g typescript",
               "node -e 'console.log(\"Node.js runtime works\")'">>
        ELSE <<>>)

_generate_benchmark_suite(workbench_type) ==
    <<"# Performance benchmarks",
      "time python -c 'import torch; torch.randn(1000, 1000).sum()'">>
    \o (IF workbench_type \in {"ml_research", "hybrid_workbench"}
        THEN <<"# ML performance benchmarks",
               "python -c 'import torch; import time; start=time.time(); x=torch.randn(5000,5000); y=torch.matmul(x,x); print(f\"Matrix multiply time: {time.time()-start:.3f}s\")'",
               "python -c 'from transformers import AutoTokenizer; tokenizer = AutoTokenizer.from_pretrained(\"bert-base-uncased\"); print(f\"Tokenizer load time measured\")'">>
        ELSE <<>>)
    \o (IF workbench_type \in {"protocol_design", "hybrid_workbench"}
        THEN <<"# Protocol performance benchmarks",
               "node -e 'console.time(\"startup\"); require(\"ws\"); console.timeEnd(\"startup\")'">>
        ELSE <<>>)

_generate_deployment_config(config) ==
    [container_runtime |-> Get(config, "container_runtime", "docker"),
     orchestration |-> Get(config, "orchestration", "kubernetes"),
     scaling |-> [min_replicas |-> Get(config, "min_replicas", 1),
                  max_replicas |-> Get(config, "max_replicas", 10),
                  target_cpu |-> Get(config, "target_cpu", 70)],
     networking |-> [service_mesh |-> Get(config, "service_mesh", FALSE),
                     load_balancer |-> Get(config, "load_balancer", "nginx")],
     security |-> [pod_security_context |-> Get(config, "security_context", EmptyDict),
                   network_policies |-> Get(config, "network_policies", <<>>)]]

\* _generate_hash_manifest on a blueprint that has no hash_manifest yet:
\* json.dumps(asdict(...), sort_keys=True) is one-to-one on the dicts, and
\* so is the join of the instructions, none of which holds a newline.  The
\* keys are the parts of their f-strings; a later package of the same name
\* overwrites an earlier one.
_generate_hash_manifest(blueprint) ==
    LET packages == blueprint.environment.packages
        Latest(name) ==
            packages[CHOOSE i \in DOMAIN packages :
                        /\ packages[i].name = name
                        /\ \A j \in DOMAIN packages :
                              packages[j].name = name => j <= i]
        keys == {<<"blueprint_spec">>, <<"build_instructions">>}
                \cup {<<"package_", packages[i].name>> : i \in DOMAIN packages}
    IN [key \in keys |->
            IF key = <<"blueprint_spec">> THEN Sha256(blueprint)
            ELSE IF key = <<"build_instructions">>
            THEN Sha256(blueprint.build_instructions)
            ELSE Sha256(Latest(key[2]))]

\* The blueprint that the call makes of an environment when build_history
\* holds k blueprints and datetime.now() gives `now`.
BuildBlueprint(k, workbench_type, enterprise_config, env_spec, now) ==
    LET blueprint ==
            [name |-> <<workbench_type, "_blueprint">>,
             version |-> <<"1.", k>>,
             created_at |-> now,
             environment |-> env_spec,
             build_instructions |-> _generate_build_instructions(env_spec),
             test_suite |-> _generate_test_suite(workbench_type),
             benchmark_suite |-> _generate_benchmark_suite(workbench_type),
             deployment_config |-> _generate_deployment_config(enterprise_config),
             metadata |-> [workbench_type |-> workbench_type,
                           enterprise_customizations |-> enterprise_config # EmptyDict,
                           reproducible |-> TRUE,
                           ai_optimized |-> TRUE]]
    IN [f \in DOMAIN blueprint \cup {"hash_manifest"} |->
            IF f = "hash_manifest" THEN _generate_hash_manifest(blueprint)
            ELSE blueprint[f]]

\* create_ai_workbench_blueprint: the exception raised ("none" if none), the
\* blueprint returned and build_history afterwards.  The class defines no
\* _create_nn_development_environment: the attribute lookup raises.
create_ai_workbench_blueprint(history, workbench_type, enterprise_config, now) ==
    LET Raise(exception) ==
            [raised |-> exception, result |-> None, build_history |-> history]
        Return(env_spec) ==
            LET blueprint == BuildBlueprint(Len(history), workbench_type,
                                            enterprise_config, env_spec, now)
            IN [raised |-> "none", result |-> blueprint,
                build_history |-> Append(history, blueprint)]
    IN IF workbench_type = "ml_research"
       THEN Return(_create_ml_research_environment(enterprise_config))
       ELSE IF workbench_type = "nn_development"
       THEN Raise("AttributeError")
       ELSE IF workbench_type = "protocol_design"
       THEN Return(_create_protocol_design_environment(enterprise_config))
       ELSE IF workbench_type = "hybrid_workbench"
       THEN Return(_create_hybrid_workbench_environment(enterprise_config))
       ELSE Raise("ValueError")

CallCreateAiWorkbenchBlueprint(workbench_type, enterprise_config, now) ==
    /\ pc = "serving"
    /\ \E r \in {create_ai_workbench_blueprint(build_history, workbench_type,
                                               enterprise_config, now)} :
          /\ Len(r.build_history) <= MaxBlueprints
          /\ build_history' = r.build_history
          /\ last' = [op |-> "create_ai_workbench_blueprint",
                      workbench_type |-> workbench_type,
                      enterprise_config |-> enterprise_config,
                      raised |-> r.raised, result |-> r.result]
    /\ UNCHANGED <<lspVars, mcpVars, builderVars, fabricVars, transportVars,
                   orchestratorVars, designerVars>>

GeneratorNext ==
    \E workbench_type \in WorkbenchTypes, enterprise_config \in EnterpriseConfigs,
       now \in Times :
        CallCreateAiWorkbenchBlueprint(workbench_type, enterprise_config, now)

GeneratorSpec == BuildInit /\ [][GeneratorNext]_vars

----------------------------------------------------------------------------
(* BlueprintGenerator: claims *)

\* build_history[i] is what a call with this type and config returns
MadeFrom(i, workbench_type, enterprise_config) ==
    \E now \in Times :
        create_ai_workbench_blueprint(SubSeq(build_history, 1, i - 1), workbench_type,
                                      enterprise_config, now).result
            = build_history[i]

\* C22: a blueprint just created has the same hash_manifest entries
\* (blueprint_spec, every package_<name>, build_instructions) as every
\* earlier blueprint of build_history made from the same workbench type and
\* the same enterprise config.
C22_SameInputsSameHashes ==
    (last.op = "create_ai_workbench_blueprint" /\ last.raised = "none") =>
        \A i \in 1..(Len(build_history) - 1) :
            MadeFrom(i, last.workbench_type, last.enterprise_config)
                => build_history[i].hash_manifest = last.result.hash_manifest

\* C23: a call for ml_research, nn_development, protocol_design or
\* hybrid_workbench returns a blueprint, which is appended to build_history
\* and, being the k-th, has version 1.<k-1>; a call for another type raises
\* ValueError and leaves build_history unchanged.
C23_FourTypesAndValueError ==
    [][last'.op = "create_ai_workbench_blueprint" =>
          IF last'.workbench_type \in {"ml_research", "nn_development",
                                       "protocol_design", "hybrid_workbench"}
          THEN /\ last'.raised = "none"
               /\ build_history' = Append(build_history, last'.result)
               /\ last'.result.version = <<"1.", Len(build_history') - 1>>
          ELSE /\ last'.raised = "ValueError"
               /\ build_history' = build_history]_vars

----------------------------------------------------------------------------
(* CognitiveEcosystemOrchestrator                                          *)
(* (src/cognitive-ecology/ecosystem_orchestrator.py)                       *)

MaxEntries == 4       \* channel ids in one city's collaboration_channels

\* The models that establish a city: name, type and specializations.
ModelArgs ==
    {<<"Copilot", "copilot", <<"code_intelligence">>>>,
     <<"Claude", "reasoning_specialist", <<"reasoning_systems">>>>,
     <<"Grok", "grok", <<"language_models">>>>}

ModelNames == {m[1] : m \in ModelArgs}

\* str.lower on the model names
Lower(model_name) ==
    CASE model_name = "Copilot" -> "copilot"
      [] model_name = "Claude" -> "claude"
      [] model_name = "Grok" -> "grok"

\* f"{source_city}<->{target_city}::{collaboration_type}", the arrow standing
\* for the character U+27F7 of the source
NeuralChannelId(source_city, target_city, collaboration_type) ==
    <<source_city, "<->", target_city, "::", collaboration_type>>

\* establish_cognitive_city: the city and self.cities afterwards.  The niche
\* assets, the adaptive capabilities and established_at, which no channel
\* operation reads, are left out of the city.
establish_cognitive_city(cs, model_name, model_type, specializations) ==
    LET city == [name |-> model_name,
                 model_type |-> model_type,
                 namespace |-> <<"cognitive-cities/", Lower(model_name)>>,
                 specializations |-> specializations,
                 collaboration_channels |-> <<>>,
                 status |-> "active"]
    IN [result |-> city, cities |-> Put(cs, model_name, city)]

_design_protocol_stack(collaboration_type) ==
    <<"neural_transport_layer", "semantic_routing_layer",
      "context_preservation_layer", "knowledge_sync_layer", "collaboration_layer">>
    \o (IF collaboration_type = "real_time_coding"
        THEN <<"code_diff_layer", "ast_synchronization_layer", "semantic_merge_layer">>
        ELSE IF collaboration_type = "research_collaboration"
        THEN <<"hypothesis_tracking_layer", "evidence_aggregation_layer",
               "insight_synthesis_layer">>
        ELSE <<>>)

\* create_neural_transport_channel: the channel is stored first; the lookup
\* of a city that is not registered then raises KeyError, with what was
\* written before it kept.
create_neural_transport_channel(cs, chs, source_city, target_city, collaboration_type) ==
    LET channel_id == NeuralChannelId(source_city, target_city, collaboration_type)
        channel == [channel_id |-> channel_id,
                    source_city |-> source_city,
                    target_city |-> target_city,
                    protocol_stack |-> _design_protocol_stack(collaboration_type),
                    quality_metrics |-> [latency |-> "0.0", throughput |-> "0.0",
                                         fidelity |-> "1.0"]]
        chs1 == Put(chs, channel_id, channel)
        Appended(c, name) ==
            [c EXCEPT ![name].collaboration_channels = Append(@, channel_id)]
    IN IF source_city \notin DOMAIN cs
       THEN [raised |-> "KeyError", result |-> None, cities |-> cs,
             transport_channels |-> chs1]
       ELSE IF target_city \notin DOMAIN cs
       THEN [raised |-> "KeyError", result |-> None,
             cities |-> Appended(cs, source_city), transport_channels |-> chs1]
       ELSE [raised |-> "none", result |-> channel,
             cities |-> Appended(Appended(cs, source_city), target_city),
             transport_channels |-> chs1]

_determine_collaboration_strategy(project_context) ==
    LET complexity == Get(project_context, "complexity", "medium")
        innovation_level == Get(project_context, "innovation_level", "incremental")
        competitive_pressure == Get(project_context, "competitive_pressure", "low")
    IN IF innovation_level = "breakthrough" /\ competitive_pressure = "low"
       THEN "cooperative_core"
       ELSE IF competitive_pressure = "high" \/ complexity = "high"
       THEN "competitive_edge"
       ELSE "hybrid_strategy"

_design_collaboration_topology(participating_cities) ==
    IF Len(participating_cities) <= 3
    THEN [type |-> "full_mesh", cities |-> participating_cities]
    ELSE IF Len(participating_cities) <= 6
    THEN [type |-> "star", hub |-> participating_cities[1],
          spokes |-> Tail(participating_cities)]
    ELSE [type |-> "hierarchical", layers |-> [layer1 |-> participating_cities]]

\* the pairs of the two nested loops, in the order of the loops
RECURSIVE ParticipantPairs(_)
ParticipantPairs(participating_cities) ==
    IF Len(participating_cities) <= 1 THEN <<>>
    ELSE [j \in 1..(Len(participating_cities) - 1) |->
             <<participating_cities[1], participating_cities[j + 1]>>]
         \o ParticipantPairs(Tail(participating_cities))

\* the loops of orchestrate_collaboration from the pair `i` on
RECURSIVE establish_pairs(_, _, _, _)
establish_pairs(cs, chs, pairs, i) ==
    IF i > Len(pairs) THEN [raised |-> "none", cities |-> cs, transport_channels |-> chs]
    ELSE IF NeuralChannelId(pairs[i][1], pairs[i][2], "collaboration") \notin DOMAIN chs
    THEN LET c == create_neural_transport_channel(cs, chs, pairs[i][1], pairs[i][2],
                                                  "collaboration")
         IN IF c.raised # "none"
            THEN [raised |-> c.raised, cities |-> c.cities,
                  transport_channels |-> c.transport_channels]
            ELSE establish_pairs(c.cities, c.transport_channels, pairs, i + 1)
    ELSE establish_pairs(cs, chs, pairs, i + 1)

\* the loops without the test that the channel is not yet there
RECURSIVE establish_pairs_anew(_, _, _, _)
establish_pairs_anew(cs, chs, pairs, i) ==
    IF i > Len(pairs) THEN [raised |-> "none", cities |-> cs, transport_channels |-> chs]
    ELSE LET c == create_neural_transport_channel(cs, chs, pairs[i][1], pairs[i][2],
                                                  "collaboration")
         IN IF c.raised # "none"
            THEN [raised |-> c.raised, cities |-> c.cities,
                  transport_channels |-> c.transport_channels]
            ELSE establish_pairs_anew(c.cities, c.transport_channels, pairs, i + 1)

\* orchestrate_collaboration that creates every pair's channel anew
orchestrate_collaboration_anew(cs, chs, project_context, participating_cities) ==
    LET e == establish_pairs_anew(cs, chs, ParticipantPairs(participating_cities), 1)
    IN [raised |-> e.raised,
        result |-> IF e.raised # "none" THEN None
                   ELSE [participants |-> participating_cities,
                         neural_topology |->
                             _design_collaboration_topology(participating_cities)],
        cities |-> e.cities, transport_channels |-> e.transport_channels]

\* orchestrate_collaboration: the session (without its session_id, a clock
\* reading), self.cities and self.transport_channels afterwards.  The phase
\* is PEACE: nothing in the class changes ecosystem_phase.
orchestrate_collaboration(cs, chs, project_context, participating_cities) ==
    LET collaboration_session ==
            [project_context |-> project_context,
             participants |-> participating_cities,
             phase |-> "innovation_niche_construction",
             strategy |-> _determine_collaboration_strategy(project_context),
             neural_topology |-> _design_collaboration_topology(participating_cities),
             workflow |-> [workflow |-> "adaptive"]]
        e == establish_pairs(cs, chs, ParticipantPairs(participating_cities), 1)
    IN [raised |-> e.raised,
        result |-> IF e.raised # "none" THEN None ELSE collaboration_session,
        cities |-> e.cities, transport_channels |-> e.transport_channels]

ProjectContexts ==
    {EmptyDict, [complexity |-> "high", competitive_pressure |-> "high"]}

\* The participant lists: two and three models in either order, one model
\* alone, and longer lists, which name a model more than once.
ParticipantLists ==
    {<<"Grok">>,
     <<"Copilot", "Claude">>, <<"Claude", "Copilot">>, <<"Claude", "Grok">>,
     <<"Copilot", "Claude", "Grok">>, <<"Grok", "Claude", "Copilot">>,
     <<"Copilot", "Claude", "Copilot", "Claude">>,
     <<"Grok", "Claude", "Grok", "Claude", "Grok", "Claude", "Grok">>}

\* every city's collaboration_channels is within the bound
WithinEntries(cs) ==
    \A name \in DOMAIN cs : Len(cs[name].collaboration_channels) <= MaxEntries

\* A model establishes its city, once.
EstablishCognitiveCity(m) ==
    /\ pc = "serving"
    /\ m[1] \notin DOMAIN cities
    /\ \E r \in {establish_cognitive_city(cities, m[1], m[2], m[3])} :
          /\ cities' = r.cities
          /\ last' = [op |-> "establish_cognitive_city", model_name |-> m[1],
                      result |-> r.result]
    /\ UNCHANGED <<neural_channels, lspVars, mcpVars, builderVars, fabricVars,
                   transportVars, generatorVars, designerVars>>

\* A channel that is not there yet is created between two registered cities.
CreateNeuralTransportChannel(source_city, target_city, collaboration_type) ==
    /\ pc = "serving"
    /\ {source_city, target_city} \subseteq DOMAIN cities
    /\ NeuralChannelId(source_city, target_city, collaboration_type)
          \notin DOMAIN neural_channels
    /\ \E r \in {create_neural_transport_channel(cities, neural_channels, source_city,
                                                 target_city, collaboration_type)} :
          /\ WithinEntries(r.cities)
          /\ cities' = r.cities
          /\ neural_channels' = r.transport_channels
          /\ last' = [op |-> "create_neural_transport_channel",
                      source_city |-> source_city, target_city |-> target_city,
                      collaboration_type |-> collaboration_type,
                      raised |-> r.raised, result |-> r.result]
    /\ UNCHANGED <<lspVars, mcpVars, builderVars, fabricVars, transportVars,
                   generatorVars, designerVars>>

\* A collaboration of registered cities is orchestrated.
OrchestrateCollaboration(project_context, participating_cities) ==
    /\ pc = "serving"
    /\ Range(participating_cities) \subseteq DOMAIN cities
    /\ \E r \in {orchestrate_collaboration(cities, neural_channels, project_context,
                                           participating_cities)} :
          /\ WithinEntries(r.cities)
          /\ cities' = r.cities
          /\ neural_channels' = r.transport_channels
          /\ last' = [op |-> "orchestrate_collaboration",
                      project_context |-> project_context,
                      participating_cities |-> participating_cities,
                      raised |-> r.raised, result |-> r.result]
    /\ UNCHANGED <<lspVars, mcpVars, builderVars, fabricVars, transportVars,
                   generatorVars, designerVars>>

----------------------------------------------------------------------------
(* IntrospectiveProtocolDesigner                                           *)
(* (src/cognitive-ecology/introspective_protocol_designer.py)              *)

\* ProtocolGene, without its parameters
ProtocolGene(gene_id, function, mutation_rate) ==
    [gene_id |-> gene_id, function |-> function,
     evolution_history |-> <<"base_version">>, fitness_score |-> "1.0",
     mutation_rate |-> mutation_rate]

\* _create_protocol_designer_protocol: the organism, which it also stores
\* in protocol_ecosystem under its organism_id
_create_protocol_designer_protocol(ecosystem) ==
    LET protocol_designer ==
            [organism_id |-> "meta_protocol_designer_v1",
             name |-> "Introspective Protocol Designer",
             purpose |-> "Design and evolve communication protocols using self-referential analysis",
             gene_sequence |->
                <<ProtocolGene("requirement_analysis", "analyze_design_requirements", "0.1"),
                  ProtocolGene("architecture_synthesis", "synthesize_protocol_architecture", "0.15"),
                  ProtocolGene("validation_engine", "validate_protocol_design", "0.05"),
                  ProtocolGene("evolution_planner", "plan_protocol_evolution", "0.2")>>,
             collaboration_interfaces |->
                <<"meta_protocol_api", "evolution_feedback_loop", "design_pattern_sharing">>,
             generation |-> 1,
             parent_organisms |-> <<>>]
    IN [result |-> protocol_designer,
        protocol_ecosystem |-> Put(ecosystem, protocol_designer.organism_id,
                                   protocol_designer)]

_create_evolution_protocol(ecosystem) ==
    LET evolution_protocol ==
            [organism_id |-> "meta_evolution_engine_v1",
             name |-> "Protocol Evolution Engine",
             purpose |-> "Evolve and adapt protocols based on environmental feedback",
             gene_sequence |->
                <<ProtocolGene("fitness_evaluation", "evaluate_protocol_fitness", "0.1"),
                  ProtocolGene("mutation_engine", "generate_protocol_mutations", "0.25"),
                  ProtocolGene("selection_pressure", "apply_evolutionary_pressure", "0.1")>>,
             collaboration_interfaces |->
                <<"fitness_reporting", "mutation_coordination", "selection_consensus">>,
             generation |-> 1,
             parent_organisms |-> <<>>]
    IN [result |-> evolution_protocol,
        protocol_ecosystem |-> Put(ecosystem, evolution_protocol.organism_id,
                                   evolution_protocol)]

\* initialize_meta_protocol_system.  The class defines neither
\* _create_introspection_protocol nor _create_collaboration_protocol: the
\* third statement raises AttributeError on the attribute lookup, after the
\* first two have stored their organisms.
initialize_meta_protocol_system(meta, ecosystem) ==
    LET d == _create_protocol_designer_protocol(ecosystem)
        meta1 == Put(meta, "protocol_designer", d.result)
        e == _create_evolution_protocol(d.protocol_ecosystem)
        meta2 == Put(meta1, "evolution_engine", e.result)
    IN [raised |-> "AttributeError", meta_protocols |-> meta2,
        protocol_ecosystem |-> e.protocol_ecosystem]

InitializeMetaProtocolSystem ==
    /\ pc = "serving"
    /\ \E r \in {initialize_meta_protocol_system(meta_protocols, protocol_ecosystem)} :
          /\ meta_protocols' = r.meta_protocols
          /\ protocol_ecosystem' = r.protocol_ecosystem
          /\ last' = [op |-> "initialize_meta_protocol_system", raised |-> r.raised]
    /\ UNCHANGED <<lspVars, mcpVars, builderVars, fabricVars, transportVars,
                   generatorVars, orchestratorVars>>

----------------------------------------------------------------------------
(* The living architecture: the orchestrator of the cities and the         *)
(* protocol designer of one demonstration                                  *)

EcologyNext ==
    \/ \E m \in ModelArgs : EstablishCognitiveCity(m)
    \/ \E s \in ModelNames : \E t \in ModelNames \ {s} :
          CreateNeuralTransportChannel(s, t, "collaboration")
    \/ \E project_context \in ProjectContexts, participating_cities \in ParticipantLists :
          OrchestrateCollaboration(project_context, participating_cities)
    \/ InitializeMetaProtocolSystem

EcologySpec == BuildInit /\ [][EcologyNext]_vars

----------------------------------------------------------------------------
(* The living architecture: claims *)

\* C24: after orchestrate_collaboration with registered participants the
\* channel of type collaboration from every participant to every later one
\* is in transport_channels, whatever the topology of the session, and the
\* same call made again leaves transport_channels and every city's
\* collaboration_channels as they are.
C24_OrchestrateLinksEveryPairOnce ==
    [][(/\ last'.op = "orchestrate_collaboration"
        /\ Range(last'.participating_cities) \subseteq DOMAIN cities)
       =>
       /\ last'.raised = "none"
       /\ \A i \in DOMAIN last'.participating_cities :
             \A j \in DOMAIN last'.participating_cities :
                i < j =>
                   \E id \in DOMAIN neural_channels' :
                      /\ id = NeuralChannelId(last'.participating_cities[i],
                                              last'.participating_cities[j],
                                              "collaboration")
                      /\ neural_channels'[id].source_city = last'.participating_cities[i]
                      /\ neural_channels'[id].target_city = last'.participating_cities[j]
       /\ \E again \in {orchestrate_collaboration(cities', neural_channels',
                                                  last'.project_context,
                                                  last'.participating_cities)} :
             /\ again.raised = "none"
             /\ again.transport_channels = neural_channels'
             /\ again.cities = cities']_vars

\* a session of star topology has linked its participants
C24_Witness ==
    /\ last.op = "orchestrate_collaboration"
    /\ last.raised = "none"
    /\ last.result.neural_topology.type = "star"
    /\ \A i \in DOMAIN last.participating_cities :
          \A j \in DOMAIN last.participating_cities :
             i < j => NeuralChannelId(last.participating_cities[i],
                                      last.participating_cities[j], "collaboration")
                         \in DOMAIN neural_channels

\* C25: initialize_meta_protocol_system completes and leaves meta_protocols
\* with the entries protocol_designer, evolution_engine, introspection_engine
\* and inter_protocol_collaboration, each of them also in protocol_ecosystem
\* under its organism_id.
C25_MetaProtocolSystemInitialized ==
    last.op = "initialize_meta_protocol_system" =>
        /\ last.raised = "none"
        /\ DOMAIN meta_protocols = {"protocol_designer", "evolution_engine",
                                    "introspection_engine",
                                    "inter_protocol_collaboration"}
        /\ \A k \in DOMAIN meta_protocols :
              /\ meta_protocols[k].organism_id \in DOMAIN protocol_ecosystem
              /\ protocol_ecosystem[meta_protocols[k].organism_id] = meta_protocols[k]

=============================================================================
